---- MODULE Spec2Model ----
(***************************************************************************)
(* A model of the powerglove 6502 core: the CPU aggregate (src/cpu/mod.rs), *)
(* the flat bus (src/bus.rs), the opcode table (src/cpu/instructions.rs),   *)
(* the addressing modes (src/cpu/cpu_addr.rs) and the instruction handlers  *)
(* (src/cpu/cpu_instr.rs).                                                  *)
(*                                                                         *)
(* Every handler is a function from a CPU record to a CPU record.  Rust's   *)
(* plain integer operators (+, -, +=, -=) panic on overflow in a build with *)
(* overflow checks (the dev profile) and wrap in one without (the release   *)
(* profile); the field overflow_checks of the record is the profile, drawn  *)
(* in Init, and the field panicked says that the call panicked.  The        *)
(* wrapping_add / wrapping_sub calls of the source wrap in both profiles.   *)
(***************************************************************************)
EXTENDS Integers, Sequences, FiniteSets, TLC

\* ---------------------------------------------------------------- bounds

\* The number of calls other than a waiting clock() (a dispatching clock(),
\* irq(), nmi(), reset()) one behaviour makes.
MaxOps == 2

\* ------------------------------------------------------------- constants

STACK_BASE == 256
PC_POINTER == 65532
IRQ_POINTER == 65534
NMI_POINTER == 65530

\* StatusFlags, as the bit each one is.
C == 1
Z == 2
I == 4
D == 8
B == 16
U == 32
V == 64
N == 128

\* ------------------------------------------------------ integer helpers

RECURSIVE BitAnd(_, _)
BitAnd(p, q) ==
  IF p = 0 \/ q = 0 THEN 0
  ELSE (p % 2) * (q % 2) + 2 * BitAnd(p \div 2, q \div 2)

RECURSIVE BitOr(_, _)
BitOr(p, q) ==
  IF p = 0 THEN q
  ELSE IF q = 0 THEN p
  ELSE (IF p % 2 = 1 \/ q % 2 = 1 THEN 1 ELSE 0) + 2 * BitOr(p \div 2, q \div 2)

RECURSIVE BitXor(_, _)
BitXor(p, q) ==
  IF p = 0 THEN q
  ELSE IF q = 0 THEN p
  ELSE ((p + q) % 2) + 2 * BitXor(p \div 2, q \div 2)

\* !v on a u16.
Not16(v) == 65535 - v

\* u16::from_le_bytes([b0, b1]): the first byte is the low one.
from_le_bytes(b0, b1) == b0 + 256 * b1

\* u16::from_be_bytes([b0, b1]): the first byte is the high one.
from_be_bytes(b0, b1) == 256 * b0 + b1

BoolToInt(b) == IF b THEN 1 ELSE 0

\* ---------------------------------------------------------- StatusFlags

\* StatusFlags::contains
contains(status, flag) == BitAnd(status, flag) = flag

\* StatusFlags::set
set(status, flag, value) ==
  IF value THEN BitOr(status, flag) ELSE BitAnd(status, 255 - flag)

\* ------------------------------------------------------------------ Bus

\* Bus::new zeroes the ram: the model keeps the non-zero bytes only, so two
\* equal memories are equal functions.
read(c, address) ==
  IF address \in DOMAIN c.ram THEN c.ram[address] ELSE 0

WriteRam(ram, address, data) ==
  IF data = 0
  THEN [k \in DOMAIN ram \ {address} |-> ram[k]]
  ELSE [k \in DOMAIN ram \cup {address} |-> IF k = address THEN data ELSE ram[k]]

write(c, address, data) ==
  [c EXCEPT !.ram = WriteRam(c.ram, address, data)]

\* --------------------------------------------------- panics and overflow

Panic(c) == [c EXCEPT !.panicked = TRUE]

\* Whether a plain u8 (u16) operation with the mathematical result v panics.
Overflows8(c, v) == c.overflow_checks /\ (v < 0 \/ v > 255)
Overflows16(c, v) == c.overflow_checks /\ (v < 0 \/ v > 65535)

\* A handler's result: the CPU it leaves and the u8 it returns.
Ret(c, hint) == [cpu |-> c, ret |-> hint]

\* A read or write of a push or pull, which the model logs in stk.
StackRead(c, address) == [c EXCEPT !.stk = @ \cup {address}]
StackWrite(c, address, data) ==
  [write(c, address, data) EXCEPT !.stk = @ \cup {address}]

\* self.sp -= n / self.sp += n, the plain operators.
SpSub(c, n) ==
  IF c.panicked THEN c
  ELSE IF Overflows8(c, c.sp - n) THEN Panic(c)
  ELSE [c EXCEPT !.sp = (c.sp - n) % 256]

SpAdd(c, n) ==
  IF c.panicked THEN c
  ELSE IF Overflows8(c, c.sp + n) THEN Panic(c)
  ELSE [c EXCEPT !.sp = (c.sp + n) % 256]

\* ---------------------------------------------------------- opcode table

Ins(mnemonic, op_exec, mode, mode_exec, cycles) ==
  [mnemonic |-> mnemonic, op_exec |-> op_exec, mode |-> mode,
   mode_exec |-> mode_exec, cycles |-> cycles]

INSTRUCTION_MAP ==
  <<
    Ins("BRK", "brk", "IMM", "imm", 7),
    Ins("ORA", "ora", "IZX", "izx", 6),
    Ins("XXX", "xxx", "IMP", "imp", 2),
    Ins("XXX", "xxx", "IMP", "imp", 8),
    Ins("NOP", "nop", "IMP", "imp", 3),
    Ins("ORA", "ora", "ZP0", "zp0", 3),
    Ins("ASL", "asl", "ZP0", "zp0", 5),
    Ins("XXX", "xxx", "IMP", "imp", 5),
    Ins("PHP", "php", "IMP", "imp", 3),
    Ins("ORA", "ora", "IMM", "imm", 2),
    Ins("ASL", "asl", "IMP", "imp", 2),
    Ins("XXX", "xxx", "IMP", "imp", 2),
    Ins("NOP", "nop", "IMP", "imp", 4),
    Ins("ORA", "ora", "ABS", "abs", 4),
    Ins("ASL", "asl", "ABS", "abs", 6),
    Ins("XXX", "xxx", "IMP", "imp", 6),
    Ins("BPL", "bpl", "REL", "rel", 2),
    Ins("ORA", "ora", "IZY", "izy", 5),
    Ins("XXX", "xxx", "IMP", "imp", 2),
    Ins("XXX", "xxx", "IMP", "imp", 8),
    Ins("NOP", "nop", "IMP", "imp", 4),
    Ins("ORA", "ora", "ZPX", "zpx", 4),
    Ins("ASL", "asl", "ZPX", "zpx", 6),
    Ins("XXX", "xxx", "IMP", "imp", 6),
    Ins("CLC", "clc", "IMP", "imp", 2),
    Ins("ORA", "ora", "ABY", "aby", 4),
    Ins("NOP", "nop", "IMP", "imp", 2),
    Ins("XXX", "xxx", "IMP", "imp", 7),
    Ins("NOP", "nop", "IMP", "imp", 4),
    Ins("ORA", "ora", "ABX", "abx", 4),
    Ins("ASL", "asl", "ABX", "abx", 7),
    Ins("XXX", "xxx", "IMP", "imp", 7),
    Ins("JSR", "jsr", "ABS", "abs", 6),
    Ins("AND", "and", "IZX", "izx", 6),
    Ins("XXX", "xxx", "IMP", "imp", 2),
    Ins("XXX", "xxx", "IMP", "imp", 8),
    Ins("BIT", "bit", "ZP0", "zp0", 3),
    Ins("AND", "and", "ZP0", "zp0", 3),
    Ins("ROL", "rol", "ZP0", "zp0", 5),
    Ins("XXX", "xxx", "IMP", "imp", 5),
    Ins("PLP", "plp", "IMP", "imp", 4),
    Ins("AND", "and", "IMM", "imm", 2),
    Ins("ROL", "rol", "IMP", "imp", 2),
    Ins("XXX", "xxx", "IMP", "imp", 2),
    Ins("BIT", "bit", "ABS", "abs", 4),
    Ins("AND", "and", "ABS", "abs", 4),
    Ins("ROL", "rol", "ABS", "abs", 6),
    Ins("XXX", "xxx", "IMP", "imp", 6),
    Ins("BMI", "bmi", "REL", "rel", 2),
    Ins("AND", "and", "IZY", "izy", 5),
    Ins("XXX", "xxx", "IMP", "imp", 2),
    Ins("XXX", "xxx", "IMP", "imp", 8),
    Ins("NOP", "nop", "IMP", "imp", 4),
    Ins("AND", "and", "ZPX", "zpx", 4),
    Ins("ROL", "rol", "ZPX", "zpx", 6),
    Ins("XXX", "xxx", "IMP", "imp", 6),
    Ins("SEC", "sec", "IMP", "imp", 2),
    Ins("AND", "and", "ABY", "aby", 4),
    Ins("NOP", "nop", "IMP", "imp", 2),
    Ins("XXX", "xxx", "IMP", "imp", 7),
    Ins("NOP", "nop", "IMP", "imp", 4),
    Ins("AND", "and", "ABX", "abx", 4),
    Ins("ROL", "rol", "ABX", "abx", 7),
    Ins("XXX", "xxx", "IMP", "imp", 7),
    Ins("RTI", "rti", "IMP", "imp", 6),
    Ins("EOR", "eor", "IZX", "izx", 6),
    Ins("XXX", "xxx", "IMP", "imp", 2),
    Ins("XXX", "xxx", "IMP", "imp", 8),
    Ins("NOP", "nop", "IMP", "imp", 3),
    Ins("EOR", "eor", "ZP0", "zp0", 3),
    Ins("LSR", "lsr", "ZP0", "zp0", 5),
    Ins("XXX", "xxx", "IMP", "imp", 5),
    Ins("PHA", "pha", "IMP", "imp", 3),
    Ins("EOR", "eor", "IMM", "imm", 2),
    Ins("LSR", "lsr", "IMP", "imp", 2),
    Ins("XXX", "xxx", "IMP", "imp", 2),
    Ins("JMP", "jmp", "ABS", "abs", 3),
    Ins("EOR", "eor", "ABS", "abs", 4),
    Ins("LSR", "lsr", "ABS", "abs", 6),
    Ins("XXX", "xxx", "IMP", "imp", 6),
    Ins("BVC", "bvc", "REL", "rel", 2),
    Ins("EOR", "eor", "IZY", "izy", 5),
    Ins("XXX", "xxx", "IMP", "imp", 2),
    Ins("XXX", "xxx", "IMP", "imp", 8),
    Ins("NOP", "nop", "IMP", "imp", 4),
    Ins("EOR", "eor", "ZPX", "zpx", 4),
    Ins("LSR", "lsr", "ZPX", "zpx", 6),
    Ins("XXX", "xxx", "IMP", "imp", 6),
    Ins("CLI", "cli", "IMP", "imp", 2),
    Ins("EOR", "eor", "ABY", "aby", 4),
    Ins("NOP", "nop", "IMP", "imp", 2),
    Ins("XXX", "xxx", "IMP", "imp", 7),
    Ins("NOP", "nop", "IMP", "imp", 4),
    Ins("EOR", "eor", "ABX", "abx", 4),
    Ins("LSR", "lsr", "ABX", "abx", 7),
    Ins("XXX", "xxx", "IMP", "imp", 7),
    Ins("RTS", "rts", "IMP", "imp", 6),
    Ins("ADC", "adc", "IZX", "izx", 6),
    Ins("XXX", "xxx", "IMP", "imp", 2),
    Ins("XXX", "xxx", "IMP", "imp", 8),
    Ins("NOP", "nop", "IMP", "imp", 3),
    Ins("ADC", "adc", "ZP0", "zp0", 3),
    Ins("ROR", "ror", "ZP0", "zp0", 5),
    Ins("XXX", "xxx", "IMP", "imp", 5),
    Ins("PLA", "pla", "IMP", "imp", 4),
    Ins("ADC", "adc", "IMM", "imm", 2),
    Ins("ROR", "ror", "IMP", "imp", 2),
    Ins("XXX", "xxx", "IMP", "imp", 2),
    Ins("JMP", "jmp", "IND", "ind", 5),
    Ins("ADC", "adc", "ABS", "abs", 4),
    Ins("ROR", "ror", "ABS", "abs", 6),
    Ins("XXX", "xxx", "IMP", "imp", 6),
    Ins("BVS", "bvs", "REL", "rel", 2),
    Ins("ADC", "adc", "IZY", "izy", 5),
    Ins("XXX", "xxx", "IMP", "imp", 2),
    Ins("XXX", "xxx", "IMP", "imp", 8),
    Ins("NOP", "nop", "IMP", "imp", 4),
    Ins("ADC", "adc", "ZPX", "zpx", 4),
    Ins("ROR", "ror", "ZPX", "zpx", 6),
    Ins("XXX", "xxx", "IMP", "imp", 6),
    Ins("SEI", "sei", "IMP", "imp", 2),
    Ins("ADC", "adc", "ABY", "aby", 4),
    Ins("NOP", "nop", "IMP", "imp", 2),
    Ins("XXX", "xxx", "IMP", "imp", 7),
    Ins("NOP", "nop", "IMP", "imp", 4),
    Ins("ADC", "adc", "ABX", "abx", 4),
    Ins("ROR", "ror", "ABX", "abx", 7),
    Ins("XXX", "xxx", "IMP", "imp", 7),
    Ins("NOP", "nop", "IMP", "imp", 2),
    Ins("STA", "sta", "IZX", "izx", 6),
    Ins("NOP", "nop", "IMP", "imp", 2),
    Ins("XXX", "xxx", "IMP", "imp", 6),
    Ins("STY", "sty", "ZP0", "zp0", 3),
    Ins("STA", "sta", "ZP0", "zp0", 3),
    Ins("STX", "stx", "ZP0", "zp0", 3),
    Ins("XXX", "xxx", "IMP", "imp", 3),
    Ins("DEY", "dey", "IMP", "imp", 2),
    Ins("NOP", "nop", "IMP", "imp", 2),
    Ins("TXA", "txa", "IMP", "imp", 2),
    Ins("XXX", "xxx", "IMP", "imp", 2),
    Ins("STY", "sty", "ABS", "abs", 4),
    Ins("STA", "sta", "ABS", "abs", 4),
    Ins("STX", "stx", "ABS", "abs", 4),
    Ins("XXX", "xxx", "IMP", "imp", 4),
    Ins("BCC", "bcc", "REL", "rel", 2),
    Ins("STA", "sta", "IZY", "izy", 6),
    Ins("XXX", "xxx", "IMP", "imp", 2),
    Ins("XXX", "xxx", "IMP", "imp", 6),
    Ins("STY", "sty", "ZPX", "zpx", 4),
    Ins("STA", "sta", "ZPX", "zpx", 4),
    Ins("STX", "stx", "ZPY", "zpy", 4),
    Ins("XXX", "xxx", "IMP", "imp", 4),
    Ins("TYA", "tya", "IMP", "imp", 2),
    Ins("STA", "sta", "ABY", "aby", 5),
    Ins("TXS", "txs", "IMP", "imp", 2),
    Ins("XXX", "xxx", "IMP", "imp", 5),
    Ins("NOP", "nop", "IMP", "imp", 5),
    Ins("STA", "sta", "ABX", "abx", 5),
    Ins("XXX", "xxx", "IMP", "imp", 5),
    Ins("XXX", "xxx", "IMP", "imp", 5),
    Ins("LDY", "ldy", "IMM", "imm", 2),
    Ins("LDA", "lda", "IZX", "izx", 6),
    Ins("LDX", "ldx", "IMM", "imm", 2),
    Ins("XXX", "xxx", "IMP", "imp", 6),
    Ins("LDY", "ldy", "ZP0", "zp0", 3),
    Ins("LDA", "lda", "ZP0", "zp0", 3),
    Ins("LDX", "ldx", "ZP0", "zp0", 3),
    Ins("XXX", "xxx", "IMP", "imp", 3),
    Ins("TAY", "tay", "IMP", "imp", 2),
    Ins("LDA", "lda", "IMM", "imm", 2),
    Ins("TAX", "tax", "IMP", "imp", 2),
    Ins("XXX", "xxx", "IMP", "imp", 2),
    Ins("LDY", "ldy", "ABS", "abs", 4),
    Ins("LDA", "lda", "ABS", "abs", 4),
    Ins("LDX", "ldx", "ABS", "abs", 4),
    Ins("XXX", "xxx", "IMP", "imp", 4),
    Ins("BCS", "bcs", "REL", "rel", 2),
    Ins("LDA", "lda", "IZY", "izy", 5),
    Ins("XXX", "xxx", "IMP", "imp", 2),
    Ins("XXX", "xxx", "IMP", "imp", 5),
    Ins("LDY", "ldy", "ZPX", "zpx", 4),
    Ins("LDA", "lda", "ZPX", "zpx", 4),
    Ins("LDX", "ldx", "ZPY", "zpy", 4),
    Ins("XXX", "xxx", "IMP", "imp", 4),
    Ins("CLV", "clv", "IMP", "imp", 2),
    Ins("LDA", "lda", "ABY", "aby", 4),
    Ins("TSX", "tsx", "IMP", "imp", 2),
    Ins("XXX", "xxx", "IMP", "imp", 4),
    Ins("LDY", "ldy", "ABX", "abx", 4),
    Ins("LDA", "lda", "ABX", "abx", 4),
    Ins("LDX", "ldx", "ABY", "aby", 4),
    Ins("XXX", "xxx", "IMP", "imp", 4),
    Ins("CPY", "cpy", "IMM", "imm", 2),
    Ins("CMP", "cmp", "IZX", "izx", 6),
    Ins("NOP", "nop", "IMP", "imp", 2),
    Ins("XXX", "xxx", "IMP", "imp", 8),
    Ins("CPY", "cpy", "ZP0", "zp0", 3),
    Ins("CMP", "cmp", "ZP0", "zp0", 3),
    Ins("DEC", "dec", "ZP0", "zp0", 5),
    Ins("XXX", "xxx", "IMP", "imp", 5),
    Ins("INY", "iny", "IMP", "imp", 2),
    Ins("CMP", "cmp", "IMM", "imm", 2),
    Ins("DEX", "dex", "IMP", "imp", 2),
    Ins("XXX", "xxx", "IMP", "imp", 2),
    Ins("CPY", "cpy", "ABS", "abs", 4),
    Ins("CMP", "cmp", "ABS", "abs", 4),
    Ins("DEC", "dec", "ABS", "abs", 6),
    Ins("XXX", "xxx", "IMP", "imp", 6),
    Ins("BNE", "bne", "REL", "rel", 2),
    Ins("CMP", "cmp", "IZY", "izy", 5),
    Ins("XXX", "xxx", "IMP", "imp", 2),
    Ins("XXX", "xxx", "IMP", "imp", 8),
    Ins("NOP", "nop", "IMP", "imp", 4),
    Ins("CMP", "cmp", "ZPX", "zpx", 4),
    Ins("DEC", "dec", "ZPX", "zpx", 6),
    Ins("XXX", "xxx", "IMP", "imp", 6),
    Ins("CLD", "cld", "IMP", "imp", 2),
    Ins("CMP", "cmp", "ABY", "aby", 4),
    Ins("NOP", "nop", "IMP", "imp", 2),
    Ins("XXX", "xxx", "IMP", "imp", 7),
    Ins("NOP", "nop", "IMP", "imp", 4),
    Ins("CMP", "cmp", "ABX", "abx", 4),
    Ins("DEC", "dec", "ABX", "abx", 7),
    Ins("XXX", "xxx", "IMP", "imp", 7),
    Ins("CPX", "cpx", "IMM", "imm", 2),
    Ins("SBC", "sbc", "IZX", "izx", 6),
    Ins("NOP", "nop", "IMP", "imp", 2),
    Ins("XXX", "xxx", "IMP", "imp", 8),
    Ins("CPX", "cpx", "ZP0", "zp0", 3),
    Ins("SBC", "sbc", "ZP0", "zp0", 3),
    Ins("INC", "inc", "ZP0", "zp0", 5),
    Ins("XXX", "xxx", "IMP", "imp", 5),
    Ins("INX", "inx", "IMP", "imp", 2),
    Ins("SBC", "sbc", "IMM", "imm", 2),
    Ins("NOP", "nop", "IMP", "imp", 2),
    Ins("SBC", "sbc", "IMP", "imp", 2),
    Ins("CPX", "cpx", "ABS", "abs", 4),
    Ins("SBC", "sbc", "ABS", "abs", 4),
    Ins("INC", "inc", "ABS", "abs", 6),
    Ins("XXX", "xxx", "IMP", "imp", 6),
    Ins("BEQ", "beq", "REL", "rel", 2),
    Ins("SBC", "sbc", "IZY", "izy", 5),
    Ins("XXX", "xxx", "IMP", "imp", 2),
    Ins("XXX", "xxx", "IMP", "imp", 8),
    Ins("NOP", "nop", "IMP", "imp", 4),
    Ins("SBC", "sbc", "ZPX", "zpx", 4),
    Ins("INC", "inc", "ZPX", "zpx", 6),
    Ins("XXX", "xxx", "IMP", "imp", 6),
    Ins("SED", "sed", "IMP", "imp", 2),
    Ins("SBC", "sbc", "ABY", "aby", 4),
    Ins("NOP", "nop", "IMP", "imp", 2),
    Ins("XXX", "xxx", "IMP", "imp", 7),
    Ins("NOP", "nop", "IMP", "imp", 4),
    Ins("SBC", "sbc", "ABX", "abx", 4),
    Ins("INC", "inc", "ABX", "abx", 7),
    Ins("XXX", "xxx", "IMP", "imp", 7)
  >>

\* Instruction::decode
\* decode over a table whose entry for 0x0A (ASL on the accumulator) is
\* tagged ABS while it stays bound to imp.
decode_retagged(opcode) ==
  [INSTRUCTION_MAP[opcode + 1]
     EXCEPT !.mode = IF opcode = 10 THEN "ABS" ELSE @]

decode(opcode) == INSTRUCTION_MAP[opcode + 1]

\* ------------------------------------------------------ addressing modes

imp(c) == Ret([c EXCEPT !.fetched = c.a], 0)

imm(c) == Ret([c EXCEPT !.addr_abs = c.pc, !.pc = (c.pc + 1) % 65536], 0)

zp0(c) ==
  Ret([c EXCEPT !.addr_abs = BitAnd(read(c, c.pc), 255),
                !.pc = (c.pc + 1) % 65536], 0)

\* cpu.read(cpu.pc) + cpu.x is a u8 sum.
zpx(c) ==
  LET sum == read(c, c.pc) + c.x
  IN IF Overflows8(c, sum) THEN Ret(Panic(c), 0)
     ELSE Ret([c EXCEPT !.addr_abs = BitAnd(sum % 256, 255),
                        !.pc = (c.pc + 1) % 65536], 0)

zpy(c) ==
  LET sum == read(c, c.pc) + c.y
  IN IF Overflows8(c, sum) THEN Ret(Panic(c), 0)
     ELSE Ret([c EXCEPT !.addr_abs = BitAnd(sum % 256, 255),
                        !.pc = (c.pc + 1) % 65536], 0)

rel(c) ==
  LET byte == read(c, c.pc)
  IN Ret([c EXCEPT !.addr_rel = IF BitAnd(byte, 128) # 0
                                THEN BitOr(byte, 65280) ELSE byte,
                   !.pc = (c.pc + 1) % 65536], 0)

abs(c) ==
  LET lo == read(c, c.pc)
      hi == read(c, (c.pc + 1) % 65536)
  IN Ret([c EXCEPT !.pc = (c.pc + 2) % 65536,
                   !.addr_abs = from_le_bytes(lo, hi)], 0)

\* ABX and ABY: the base, then a plain u16 addition of the index.
AbsIndexed(c, index) ==
  LET lo == read(c, c.pc)
      hi == read(c, (c.pc + 1) % 65536)
      c1 == [c EXCEPT !.pc = (c.pc + 2) % 65536,
                      !.addr_abs = from_le_bytes(lo, hi)]
      sum == c1.addr_abs + index
  IN IF Overflows16(c1, sum) THEN Ret(Panic(c1), 0)
     ELSE LET c2 == [c1 EXCEPT !.addr_abs = sum % 65536]
          IN Ret(c2, IF BitAnd(c2.addr_abs, 65280) # hi * 256 THEN 1 ELSE 0)

abx(c) == AbsIndexed(c, c.x)

aby(c) == AbsIndexed(c, c.y)

\* ptr + 1 is a plain u16 addition; with a pointer low byte of 0xFF the low
\* byte of the target is read from ptr & 0xFF00 and the high one from ptr + 1.
ind(c) ==
  LET ptr_lo == read(c, c.pc)
      ptr_hi == read(c, (c.pc + 1) % 65536)
      ptr == from_le_bytes(ptr_lo, ptr_hi)
      c1 == [c EXCEPT !.pc = (c.pc + 2) % 65536]
  IN IF Overflows16(c1, ptr + 1) THEN Ret(Panic(c1), 0)
     ELSE IF ptr_lo = 255
     THEN Ret([c1 EXCEPT !.addr_abs =
                 from_le_bytes(read(c1, BitAnd(ptr, 65280)),
                               read(c1, (ptr + 1) % 65536))], 0)
     ELSE Ret([c1 EXCEPT !.addr_abs =
                 from_le_bytes(read(c1, ptr), read(c1, (ptr + 1) % 65536))], 0)

\* The two bytes are joined with from_be_bytes: the byte at the pointer is
\* the high byte of addr_abs.
izx(c) ==
  LET t == read(c, c.pc)
      lo == read(c, BitAnd(t + c.x, 255))
      hi == read(c, BitAnd(t + c.x + 1, 255))
  IN Ret([c EXCEPT !.pc = (c.pc + 1) % 65536,
                   !.addr_abs = from_be_bytes(lo, hi)], 0)

izy(c) ==
  LET t == read(c, c.pc)
      lo == read(c, BitAnd(t, 255))
      hi == read(c, BitAnd(t + 1, 255))
      c1 == [c EXCEPT !.pc = (c.pc + 1) % 65536,
                      !.addr_abs = from_le_bytes(lo, hi)]
      sum == c1.addr_abs + c1.y
  IN IF Overflows16(c1, sum) THEN Ret(Panic(c1), 0)
     ELSE LET c2 == [c1 EXCEPT !.addr_abs = sum % 65536]
          IN Ret(c2, IF BitAnd(c2.addr_abs, 65280) # hi * 256 THEN 1 ELSE 0)

\* The addressing-mode procedure an entry binds.
ModeExec(name, c) ==
  CASE name = "imp" -> imp(c)
    [] name = "imm" -> imm(c)
    [] name = "zp0" -> zp0(c)
    [] name = "zpx" -> zpx(c)
    [] name = "zpy" -> zpy(c)
    [] name = "rel" -> rel(c)
    [] name = "abs" -> abs(c)
    [] name = "abx" -> abx(c)
    [] name = "aby" -> aby(c)
    [] name = "ind" -> ind(c)
    [] name = "izx" -> izx(c)
    [] name = "izy" -> izy(c)

\* CPU::fetch
fetch(c) ==
  IF decode(c.opcode).mode # "IMP"
  THEN [c EXCEPT !.fetched = read(c, c.addr_abs)]
  ELSE c

\* --------------------------------------------------- instruction handlers

\* cpu.status.set(flag, value)
Flag(c, flag, value) == [c EXCEPT !.status = set(@, flag, value)]

\* AddWithCarry with the first term of the overflow formula not inverted.
AddWithCarry_plain_xor(c, fetched) ==
  LET result == fetched + c.a + BoolToInt(contains(c.status, C))
      v == BitAnd(BitAnd(BitXor(c.a, fetched), BitXor(c.a, result)), 128)
      c1 == Flag(c, C, result > 255)
      c2 == Flag(c1, Z, BitAnd(result, 255) = 0)
      c3 == Flag(c2, N, BitAnd(result, 128) # 0)
      c4 == Flag(c3, V, v # 0)
  IN [c4 EXCEPT !.a = BitAnd(result, 255)]

\* AddWithCarry with 6 added to the sum when D is set.
AddWithCarry_decimal(c, fetched) ==
  LET result == fetched + c.a + BoolToInt(contains(c.status, C))
                  + (IF contains(c.status, D) THEN 6 ELSE 0)
      v == BitAnd(BitAnd(Not16(BitXor(c.a, fetched)), BitXor(c.a, result)), 128)
      c1 == Flag(c, C, result > 255)
      c2 == Flag(c1, Z, BitAnd(result, 255) = 0)
      c3 == Flag(c2, N, BitAnd(result, 128) # 0)
      c4 == Flag(c3, V, v # 0)
  IN [c4 EXCEPT !.a = BitAnd(result, 255)]

\* The sum, flags and accumulator of ADC and SBC, on the operand as added.
AddWithCarry(c, fetched) ==
  LET result == fetched + c.a + BoolToInt(contains(c.status, C))
      v == BitAnd(BitAnd(Not16(BitXor(c.a, fetched)), BitXor(c.a, result)), 128)
      c1 == Flag(c, C, result > 255)
      c2 == Flag(c1, Z, BitAnd(result, 255) = 0)
      c3 == Flag(c2, N, BitAnd(result, 128) # 0)
      c4 == Flag(c3, V, v # 0)
  IN [c4 EXCEPT !.a = BitAnd(result, 255)]

\* adc and sbc after their fetch: sbc inverts the low eight bits first.
AdcFetched(c) == AddWithCarry(c, c.fetched)

\* sbc negating the operand (two's complement) in place of inverting it.
SbcFetched_negates(c) == AddWithCarry(c, (256 - c.fetched) % 256)

\* sbc borrowing when C is set: the operand inverted and C inverted too.
SbcFetched_borrow(c) ==
  AddWithCarry([c EXCEPT !.status = BitXor(@, C)], BitXor(c.fetched, 255))

SbcFetched(c) == AddWithCarry(c, BitXor(c.fetched, 255))

adc(c) == Ret(AdcFetched(fetch(c)), 1)

sbc(c) == Ret(SbcFetched(fetch(c)), 1)

\* Z and N from a byte, as the loads and logic instructions set them.
FlagZN(c, byte) == Flag(Flag(c, Z, byte = 0), N, BitAnd(byte, 128) # 0)

\* A loaded with a byte, and Z and N from it.
LoadA(c, byte) == FlagZN([c EXCEPT !.a = byte], byte)
LoadX(c, byte) == FlagZN([c EXCEPT !.x = byte], byte)
LoadY(c, byte) == FlagZN([c EXCEPT !.y = byte], byte)

AndFetched(c) == LoadA(c, BitAnd(c.a, c.fetched))

and(c) == Ret(AndFetched(fetch(c)), 1)

\* The destination of a shift or rotate: A in IMP mode, else mem[addr_abs].
\* The write-back that always goes to memory.
WriteBack_memory(c, byte) == write(c, c.addr_abs, byte)

WriteBack(c, byte) ==
  IF decode(c.opcode).mode = "IMP"
  THEN [c EXCEPT !.a = byte]
  ELSE write(c, c.addr_abs, byte)

\* A shift or rotate after its fetch: the carry, Z and N from the low eight
\* bits of the result, and the result written back.
Shifted(c, carry, result) ==
  WriteBack(Flag(Flag(Flag(c, C, carry), Z, BitAnd(result, 255) = 0),
                 N, BitAnd(result, 128) # 0),
            BitAnd(result, 255))

AslFetched(c) == Shifted(c, BitAnd(c.fetched * 2, 65280) > 0, c.fetched * 2)

asl(c) == Ret(AslFetched(fetch(c)), 0)

\* Generic branch instruction: pc + addr_rel is a plain u16 addition.
BranchTo(c) ==
  IF Overflows16(c, c.pc + c.addr_rel) THEN Panic(c)
  ELSE [c EXCEPT !.addr_abs = (c.pc + c.addr_rel) % 65536,
                 !.cycles_remaining =
                   IF BitAnd((c.pc + c.addr_rel) % 65536, 65280) # BitAnd(c.pc, 65280)
                   THEN @ + 1 ELSE @,
                 !.pc = (c.pc + c.addr_rel) % 65536]

branch(c) == BranchTo([c EXCEPT !.cycles_remaining = @ + 1])

bcc(c) == Ret(IF ~contains(c.status, C) THEN branch(c) ELSE c, 0)

bcs(c) == Ret(IF contains(c.status, C) THEN branch(c) ELSE c, 0)

beq(c) == Ret(IF contains(c.status, Z) THEN branch(c) ELSE c, 0)

BitFetched(c) ==
  Flag(Flag(Flag(c, Z, BitAnd(BitAnd(c.a, c.fetched), 255) = 0),
            N, BitAnd(c.fetched, 128) # 0),
       V, BitAnd(c.fetched, 64) # 0)

bit(c) == Ret(BitFetched(fetch(c)), 0)

bmi(c) == Ret(IF contains(c.status, N) THEN branch(c) ELSE c, 0)

bne(c) == Ret(IF ~contains(c.status, Z) THEN branch(c) ELSE c, 0)

bpl(c) == Ret(IF ~contains(c.status, N) THEN branch(c) ELSE c, 0)

\* The second push address is STACK_BASE + (sp - 1) as u16 with a plain u8
\* subtraction, as in jsr; sp itself moves with wrapping_sub.
PushPcLow(c) ==
  IF Overflows8(c, c.sp - 1) THEN Panic(c)
  ELSE [StackWrite(c, STACK_BASE + ((c.sp - 1) % 256), BitAnd(c.pc, 255))
          EXCEPT !.sp = (c.sp - 2) % 256]

PushPc(c) ==
  PushPcLow(StackWrite(c, STACK_BASE + c.sp, BitAnd(c.pc \div 256, 255)))

\* self.write(STACK_BASE + self.sp as u16, self.status.bits)
WriteStatus(c) == StackWrite(c, STACK_BASE + c.sp, c.status)

\* brk from the B flag on: the status byte is pushed with B set (and U as
\* it is), B is cleared again, and the vector is joined with from_le_bytes.
BrkPushStatus(c) ==
  IF c.panicked THEN c
  ELSE [Flag(WriteStatus(Flag(c, B, TRUE)), B, FALSE)
          EXCEPT !.sp = (c.sp - 1) % 256,
                 !.pc = from_le_bytes(read(c, 65534), read(c, 65535))]

brk(c) ==
  Ret(BrkPushStatus(PushPc(Flag([c EXCEPT !.pc = (c.pc + 1) % 65536], I, TRUE))), 0)

bvc(c) == Ret(IF ~contains(c.status, V) THEN branch(c) ELSE c, 0)

bvs(c) == Ret(IF contains(c.status, V) THEN branch(c) ELSE c, 0)

clc(c) == Ret(Flag(c, C, FALSE), 0)

cld(c) == Ret(Flag(c, D, FALSE), 0)

cli(c) == Ret(Flag(c, I, FALSE), 0)

clv(c) == Ret(Flag(c, V, FALSE), 0)

\* CMP, CPX and CPY: the difference is taken from reg, the carry from A.
Compare(c, reg) ==
  Flag(Flag(Flag(c, C, c.a >= c.fetched),
            N, BitAnd((reg - c.fetched) % 65536, 128) # 0),
       Z, BitAnd((reg - c.fetched) % 65536, 255) = 0)

CmpFetched(c) == Compare(c, c.a)
CpxFetched(c) == Compare(c, c.x)
CpyFetched(c) == Compare(c, c.y)

cmp(c) == Ret(CmpFetched(fetch(c)), 1)

cpx(c) == Ret(CpxFetched(fetch(c)), 0)

cpy(c) == Ret(CpyFetched(fetch(c)), 0)

\* dec and inc after their fetch, on the byte to store.
StoreStepped(c, byte) ==
  Flag(Flag(write(c, c.addr_abs, BitAnd(byte, 255)), N, BitAnd(byte, 128) # 0),
       Z, BitAnd(byte, 255) = 0)

DecFetched(c) == StoreStepped(c, (c.fetched - 1) % 256)

dec(c) == Ret(DecFetched(fetch(c)), 0)

\* cpu.x.wrapping_sub(cpu.x)
dex(c) == Ret(LoadX(c, (c.x - c.x) % 256), 0)

dey(c) == Ret(LoadY(c, (c.y - c.y) % 256), 0)

EorFetched(c) == LoadA(c, BitXor(c.a, c.fetched))

eor(c) == Ret(EorFetched(fetch(c)), 1)

\* fetched + 1 is a plain u8 addition.
IncFetched(c) ==
  IF Overflows8(c, c.fetched + 1) THEN Panic(c)
  ELSE StoreStepped(c, (c.fetched + 1) % 256)

inc(c) == Ret(IncFetched(fetch(c)), 0)

inx(c) == Ret(LoadX(c, (c.x + 1) % 256), 0)

iny(c) == Ret(LoadY(c, (c.y + 1) % 256), 0)

jmp(c) == Ret([c EXCEPT !.pc = c.addr_abs], 0)

JumpToAddr(c) == IF c.panicked THEN c ELSE [c EXCEPT !.pc = c.addr_abs]

jsr(c) == Ret(JumpToAddr(PushPc([c EXCEPT !.pc = (c.pc - 1) % 65536])), 0)

LdaFetched(c) == LoadA(c, c.fetched)
LdxFetched(c) == LoadX(c, c.fetched)
LdyFetched(c) == LoadY(c, c.fetched)

lda(c) == Ret(LdaFetched(fetch(c)), 1)

ldx(c) == Ret(LdxFetched(fetch(c)), 1)

ldy(c) == Ret(LdyFetched(fetch(c)), 1)

LsrFetched(c) == Shifted(c, BitAnd(c.fetched, 1) # 0, c.fetched \div 2)

lsr(c) == Ret(LsrFetched(fetch(c)), 0)

nop(c) == Ret(c, IF c.opcode \in {28, 60, 92, 124, 220, 252} THEN 1 ELSE 0)

OraFetched(c) == LoadA(c, BitOr(c.a, c.fetched))

ora(c) == Ret(OraFetched(fetch(c)), 1)

pha(c) == Ret(SpSub(StackWrite(c, STACK_BASE + c.sp, c.a), 1), 0)

\* php pushing the status byte as it is, B and U not forced.
php_raw(c) ==
  Ret(Flag(Flag([StackWrite(c, STACK_BASE + c.sp, c.status)
                   EXCEPT !.sp = (c.sp - 1) % 256],
                B, FALSE), U, FALSE), 0)

php(c) ==
  Ret(Flag(Flag([StackWrite(c, STACK_BASE + c.sp, BitOr(BitOr(c.status, B), U))
                   EXCEPT !.sp = (c.sp - 1) % 256],
                B, FALSE), U, FALSE), 0)

\* pla and plp once sp has moved.
PullA(c) ==
  IF c.panicked THEN c
  ELSE LoadA(StackRead(c, STACK_BASE + c.sp), read(c, STACK_BASE + c.sp))

PullStatus(c) ==
  Flag([StackRead(c, STACK_BASE + c.sp)
          EXCEPT !.status = read(c, STACK_BASE + c.sp)], U, TRUE)

pla(c) == Ret(PullA(SpAdd(c, 1)), 0)

plp(c) == Ret(PullStatus([c EXCEPT !.sp = (c.sp + 1) % 256]), 0)

RolFetched(c) ==
  Shifted(c,
          BitAnd(BitOr(c.fetched * 2, BoolToInt(contains(c.status, C))), 65280) # 0,
          BitOr(c.fetched * 2, BoolToInt(contains(c.status, C))))

rol(c) == Ret(RolFetched(fetch(c)), 0)

RorFetched(c) ==
  Shifted(c, BitAnd(c.fetched, 1) # 0,
          BitOr(BoolToInt(contains(c.status, C)) * 128, c.fetched \div 2))

ror(c) == Ret(RorFetched(fetch(c)), 0)

\* The status byte is read at STACK_BASE + sp + 1 before sp moves; the two
\* PC bytes are read at sp + 1 and sp + 2 after it moved by one, and the byte
\* at sp + 2 becomes the high byte.  All three sums are u16 and do not wrap
\* into the stack page; sp += 1 and sp += 2 are plain u8 additions.
RtiStatus(c) ==
  Flag(Flag([StackRead(c, STACK_BASE + c.sp + 1)
               EXCEPT !.status = read(c, STACK_BASE + c.sp + 1)],
            B, FALSE), U, FALSE)

RtiPc(c) ==
  IF c.panicked THEN c
  ELSE [StackRead(StackRead(c, STACK_BASE + c.sp + 1), STACK_BASE + c.sp + 2)
          EXCEPT !.pc = from_be_bytes(read(c, STACK_BASE + c.sp + 2),
                                      read(c, STACK_BASE + c.sp + 1))]

rti(c) == Ret(SpAdd(RtiPc(SpAdd(RtiStatus(c), 1)), 2), 0)

rts(c) == Ret(c, 0)

sec(c) == Ret(c, 0)

sed(c) == Ret(c, 0)

sei(c) == Ret(c, 0)

sta(c) == Ret(c, 0)

stx(c) == Ret(c, 0)

sty(c) == Ret(c, 0)

tax(c) == Ret(c, 0)

tay(c) == Ret(c, 0)

tsx(c) == Ret(c, 0)

txa(c) == Ret(c, 0)

tya(c) == Ret(c, 0)

txs(c) == Ret(c, 0)

xxx(c) == Ret(c, 0)

\* The execute procedure an entry binds.
OpExec(name, c) ==
  CASE name = "adc" -> adc(c) [] name = "and" -> and(c) [] name = "asl" -> asl(c)
    [] name = "bcc" -> bcc(c) [] name = "bcs" -> bcs(c) [] name = "beq" -> beq(c)
    [] name = "bit" -> bit(c) [] name = "bmi" -> bmi(c) [] name = "bne" -> bne(c)
    [] name = "bpl" -> bpl(c) [] name = "brk" -> brk(c) [] name = "bvc" -> bvc(c)
    [] name = "bvs" -> bvs(c) [] name = "clc" -> clc(c) [] name = "cld" -> cld(c)
    [] name = "cli" -> cli(c) [] name = "clv" -> clv(c) [] name = "cmp" -> cmp(c)
    [] name = "cpx" -> cpx(c) [] name = "cpy" -> cpy(c) [] name = "dec" -> dec(c)
    [] name = "dex" -> dex(c) [] name = "dey" -> dey(c) [] name = "eor" -> eor(c)
    [] name = "inc" -> inc(c) [] name = "inx" -> inx(c) [] name = "iny" -> iny(c)
    [] name = "jmp" -> jmp(c) [] name = "jsr" -> jsr(c) [] name = "lda" -> lda(c)
    [] name = "ldx" -> ldx(c) [] name = "ldy" -> ldy(c) [] name = "lsr" -> lsr(c)
    [] name = "nop" -> nop(c) [] name = "ora" -> ora(c) [] name = "pha" -> pha(c)
    [] name = "php" -> php(c) [] name = "pla" -> pla(c) [] name = "plp" -> plp(c)
    [] name = "rol" -> rol(c) [] name = "ror" -> ror(c) [] name = "rti" -> rti(c)
    [] name = "rts" -> rts(c) [] name = "sbc" -> sbc(c) [] name = "sec" -> sec(c)
    [] name = "sed" -> sed(c) [] name = "sei" -> sei(c) [] name = "sta" -> sta(c)
    [] name = "stx" -> stx(c) [] name = "sty" -> sty(c) [] name = "tax" -> tax(c)
    [] name = "tay" -> tay(c) [] name = "tsx" -> tsx(c) [] name = "txa" -> txa(c)
    [] name = "tya" -> tya(c) [] name = "txs" -> txs(c) [] name = "xxx" -> xxx(c)

\* ------------------------------------------------------------- CPU core

\* CPU::new, on a zeroed bus, in a build with the given overflow checks.
new(checks) ==
  [ram |-> [k \in {} |-> 0], status |-> 0, a |-> 0, x |-> 0, y |-> 0,
   sp |-> 0, pc |-> 0, fetched |-> 0, addr_abs |-> 0, addr_rel |-> 0,
   cycles_remaining |-> 0, opcode |-> 0,
   panicked |-> FALSE, overflow_checks |-> checks, stk |-> {}]

\* reset() with the vector joined as irq() and nmi() join theirs.
reset_be(c) ==
  LET lo == read(c, PC_POINTER)
      hi == read(c, PC_POINTER + 1)
  IN [c EXCEPT !.a = 0, !.x = 0, !.y = 0, !.sp = 253, !.status = U,
               !.pc = from_be_bytes(lo, hi),
               !.addr_rel = 0, !.addr_abs = 0, !.fetched = 0,
               !.cycles_remaining = 8]

\* CPU::reset
reset(c) ==
  LET lo == read(c, PC_POINTER)
      hi == read(c, PC_POINTER + 1)
  IN [c EXCEPT !.a = 0, !.x = 0, !.y = 0, !.sp = 253, !.status = U,
               !.pc = from_le_bytes(lo, hi),
               !.addr_rel = 0, !.addr_abs = 0, !.fetched = 0,
               !.cycles_remaining = 8]

\* FetchOpcode without the load of the entry's cycle count.
FetchOpcode_keeps_cycles(c) ==
  [c EXCEPT !.opcode = read(c, c.pc), !.pc = (c.pc + 1) % 65536]

\* The first statements of a dispatch: the opcode is read at pc, pc moves
\* past it, and cycles_remaining is set from the table.
FetchOpcode(c) ==
  [c EXCEPT !.opcode = read(c, c.pc), !.pc = (c.pc + 1) % 65536,
            !.cycles_remaining = decode(read(c, c.pc)).cycles]

\* more_cycles1: the entry's addressing mode, run.
Addressing(c) == ModeExec(decode(c.opcode).mode_exec, c)

\* more_cycles1 & more_cycles2
JoinHints(o, more_cycles1) ==
  [cpu |-> o.cpu, ret |-> BitAnd(more_cycles1, o.ret)]

\* more_cycles2: the entry's instruction, run on what the mode left.
Execute(m) ==
  IF m.cpu.panicked THEN m
  ELSE JoinHints(OpExec(decode(m.cpu.opcode).op_exec, m.cpu), m.ret)

\* self.cycles_remaining += more_cycles1 & more_cycles2
AddCycles(r) ==
  IF r.cpu.panicked THEN r.cpu
  ELSE IF Overflows8(r.cpu, r.cpu.cycles_remaining + r.ret) THEN Panic(r.cpu)
  ELSE [r.cpu EXCEPT !.cycles_remaining = (@ + r.ret) % 256]

\* The fetch, decode and execute of clock(), entered with no cycle owed.
Dispatch(c) == AddCycles(Execute(Addressing(FetchOpcode(c))))

\* The body with the test of cycles_remaining dropped.
ClockBody_always(c) == Dispatch(c)

\* clock() up to its last statement: the value the decrement is applied to.
ClockBody(c) == IF c.cycles_remaining = 0 THEN Dispatch(c) ELSE c

\* self.cycles_remaining -= 1
Decrement(c) ==
  IF c.panicked THEN c
  ELSE IF Overflows8(c, c.cycles_remaining - 1) THEN Panic(c)
  ELSE [c EXCEPT !.cycles_remaining = (@ - 1) % 256]

\* clock() without the decrement that ends it.
clock_no_decrement(c) == ClockBody(c)

\* CPU::clock
clock(c) == Decrement(ClockBody(c))

\* The end of the entry: the vector, joined with from_be_bytes, and the cycles.
EnterVector(c, pointer, cycles) ==
  IF c.panicked THEN c
  ELSE [c EXCEPT !.pc = from_be_bytes(read(c, pointer), read(c, pointer + 1)),
                 !.cycles_remaining = cycles]

\* The status byte pushed before B, U and I are set.
PushStatus_late_flags(c) ==
  IF c.panicked THEN c
  ELSE SpSub(Flag(Flag(Flag(WriteStatus(c), B, FALSE), U, TRUE), I, TRUE), 1)

\* B, U and I are set, then the status byte is pushed.
PushStatus(c) ==
  IF c.panicked THEN c
  ELSE SpSub(WriteStatus(Flag(Flag(Flag(c, B, FALSE), U, TRUE), I, TRUE)), 1)

\* The first half: the two PC bytes are written at STACK_BASE + sp and at
\* STACK_BASE + sp - 1 (a u16 difference), and sp moves with the plain -=.
PushReturn(c) ==
  SpSub(StackWrite(StackWrite(c, STACK_BASE + c.sp, BitAnd(c.pc \div 256, 255)),
                   STACK_BASE + c.sp - 1, BitAnd(c.pc, 255)), 2)

\* The body irq() and nmi() share.
InterruptEntry(c, pointer, cycles) ==
  EnterVector(PushStatus(PushReturn(c)), pointer, cycles)

\* irq() without the test of the I flag.
irq_unmasked(c) == InterruptEntry(c, IRQ_POINTER, 7)

\* CPU::irq
irq(c) ==
  IF ~contains(c.status, I) THEN InterruptEntry(c, IRQ_POINTER, 7) ELSE c

\* CPU::nmi
nmi(c) == InterruptEntry(c, NMI_POINTER, 8)

\* ------------------------------------------------------- the host's setup

\* cpu.write(base + i, byte) for each byte, as tests/nestest.rs loads a ROM,
\* on a zeroed part of the bus: the non-zero bytes, each at its address.
LoadBytes(base, bytes) ==
  [k \in {base + i - 1 : i \in {j \in 1..Len(bytes) : bytes[j] # 0}}
     |-> bytes[k - base + 1]]

\* The three vectors as six bytes from NMI_POINTER, an RTI at each address a
\* vector names read either way round, two zero-page pointers and some data.
Board(vectors) ==
  LoadBytes(NMI_POINTER, vectors)
    @@ (from_le_bytes(vectors[1], vectors[2]) :> 64)
    @@ (from_be_bytes(vectors[1], vectors[2]) :> 64)
    @@ (from_le_bytes(vectors[5], vectors[6]) :> 64)
    @@ (from_be_bytes(vectors[5], vectors[6]) :> 64)
    @@ LoadBytes(240, <<240, 2>>)
    @@ LoadBytes(16, <<3, 64>>)
    @@ LoadBytes(32, <<240, 255>>)
    @@ (752 :> 255) @@ (757 :> 129) @@ (784 :> 127)

BoardA == Board(<<0, 144, 0, 128, 16, 160>>)
BoardB == Board(<<120, 86, 1, 128, 52, 18>>)

\* What the host sets before it drives the CPU: the memory, and the public
\* register fields it overrides (tests/nestest.rs sets pc).
Setup(ram, pc, a, xy, sp, status, poked) ==
  [ram |-> ram, pc |-> pc, a |-> a, x |-> xy, y |-> xy, sp |-> sp,
   status |-> status, poked |-> poked]

BranchOpcodes == {16, 48, 80, 112, 144, 176, 208, 240}
StackOpcodes == {0, 8, 32, 40, 64, 72, 96, 104}

IndexedModes == {"ZPX", "ZPY", "ABX", "ABY", "IZX", "IZY"}

\* Every opcode at 0x8000 with the operand bytes F0 02 and an index that
\* keeps 0x02F0 + index in the page (5).
EveryOpcode ==
  { Setup(LoadBytes(32768, <<o, 240, 2, 234>>) @@ BoardA, 32768, 80, 5, 253, 32, TRUE)
      : o \in 0..255 }

\* The opcodes of the indexed modes with an index that leaves the page
\* (0x20), and with the operand bytes 20 FF and an index (0xE0) that takes
\* 0xFF20 + index, and 0xFFF0 + index through the pointer at 0x20, past 0xFFFF.
IndexedOpcodes ==
  { Setup(LoadBytes(32768, <<o, 240, 2, 234>>) @@ BoardA, 32768, 80, 32, 253, 32, TRUE)
      : o \in {k \in 0..255 : decode(k).mode \in IndexedModes} }
  \cup
  { Setup(LoadBytes(32768, <<o, 32, 255, 234>>) @@ BoardA, 32768, 80, 224, 253, 32, TRUE)
      : o \in {k \in 0..255 : decode(k).mode \in {"ABX", "ABY", "IZY"}} }

\* The pushes and pulls at and near the two ends of the stack page.
StackEnds ==
  { Setup(LoadBytes(32768, <<o, 240, 2, 234>>) @@ BoardB, 32768, 80, 5, sp, 32, TRUE)
      : o \in StackOpcodes, sp \in {0, 1, 2, 254, 255} }

\* The branches, forward and backward, at 0x8000 and at 0x80FC, with every
\* tested flag clear (only B set) or set (and U and I set with them).
Branches ==
  { Setup(LoadBytes(pc, <<o, operand, 234, 234>>) @@ BoardA, pc, 80, 5, 253, status, TRUE)
      : o \in BranchOpcodes, pc \in {32768, 33020}, operand \in {5, 251},
        status \in {16, 231} }

\* A CPU as CPU::new leaves it, on an empty bus, on a bus with PHP at 0 and on
\* a loaded board with PHP, PLP at the reset vector's target.
Fresh ==
  { Setup(ram, 0, 0, 0, 0, 0, FALSE)
      : ram \in { [k \in {} |-> 0],
                  (0 :> 8) @@ BoardA,
                  LoadBytes(32768, <<8, 40, 234>>) @@ BoardA } }

\* Interrupt handlers that start with RTI: the NMI vector holds 0x9000, the
\* IRQ vector 0xA010, and RTI sits at those two addresses only.
Handlers ==
  { Setup(LoadBytes(NMI_POINTER, <<0, 144, 0, 128, 16, 160>>)
            @@ (32768 :> 234) @@ (36864 :> 64) @@ (40976 :> 64),
          32768, 0, 0, 253, status, FALSE)
      : status \in {32, 227} }

Scenarios ==
  EveryOpcode \cup IndexedOpcodes \cup StackEnds \cup Branches \cup Fresh
    \cup Handlers

\* ------------------------------------------------------------- the state

\* for_range as it is entered: current_addr = start as u32 and an empty
\* vector of lines.
ForRangeEntry(start, stop) ==
  [start |-> start, stop |-> stop, current_addr |-> start,
   instr_lines |-> <<>>, at |-> "loop"]

\* No call of for_range has been made.
NotCalled == [ForRangeEntry(0, 0) EXCEPT !.at = "idle"]

VARIABLES
  cpu,     \* the CPU aggregate, with its bus
  op,      \* the last call: "new", "reset", "dispatch", "wait", "irq", "nmi"
           \* ("setup" once the host has reset the CPU and set its fields)
  pre,     \* the CPU as it was when the last call was made
  disp,    \* the CPU as it was when the instruction in flight was dispatched
           \* (the CPU as it is, when none is in flight)
  ticks,   \* the clock() calls made for the instruction in flight (0: none)
  ops,     \* the calls made so far, other than waiting clock() calls
  poked,   \* whether a register holds a value the host wrote after CPU::new
           \* (reset() overwrites them all)
  dis      \* the call of Disassembler::for_range in progress: its arguments,
           \* its locals current_addr and instr_lines, and where it is

vars == <<cpu, op, pre, disp, ticks, ops, poked, dis>>

Init ==
  \E s \in Scenarios, checks \in BOOLEAN :
    /\ cpu = [new(checks) EXCEPT !.ram = s.ram, !.pc = s.pc, !.a = s.a,
                                 !.x = s.x, !.y = s.y, !.sp = s.sp,
                                 !.status = s.status]
    /\ op = "new"
    /\ pre = cpu
    /\ disp = cpu
    /\ ticks = 0
    /\ ops = 0
    /\ poked = s.poked
    /\ dis = NotCalled

\* A call starts with an empty log of stack accesses.
Begin(c) == [c EXCEPT !.stk = {}]

\* The host calls clock().
Clock ==
  /\ ~cpu.panicked
  /\ cpu.cycles_remaining = 0 => ops < MaxOps
  /\ cpu' = clock(Begin(cpu))
  /\ op' = IF cpu.cycles_remaining = 0 THEN "dispatch" ELSE "wait"
  /\ pre' = cpu
  /\ disp' = IF cpu.cycles_remaining = 0 THEN cpu
             ELSE IF ticks > 0 THEN disp ELSE cpu'
  /\ ticks' = IF cpu.cycles_remaining = 0 THEN 1
              ELSE IF ticks > 0 THEN ticks + 1 ELSE 0
  /\ ops' = IF cpu.cycles_remaining = 0 THEN ops + 1 ELSE ops
  /\ UNCHANGED <<poked, dis>>

\* The host calls irq().
Irq ==
  /\ ~cpu.panicked
  /\ ops < MaxOps
  /\ cpu' = irq(Begin(cpu))
  /\ op' = "irq"
  /\ pre' = cpu
  /\ disp' = cpu'
  /\ ticks' = 0
  /\ ops' = ops + 1
  /\ UNCHANGED <<poked, dis>>

\* The host calls nmi().
Nmi ==
  /\ ~cpu.panicked
  /\ ops < MaxOps
  /\ cpu' = nmi(Begin(cpu))
  /\ op' = "nmi"
  /\ pre' = cpu
  /\ disp' = cpu'
  /\ ticks' = 0
  /\ ops' = ops + 1
  /\ UNCHANGED <<poked, dis>>

\* The host calls reset().
Reset ==
  /\ ~cpu.panicked
  /\ ops < MaxOps
  /\ cpu' = reset(Begin(cpu))
  /\ op' = "reset"
  /\ pre' = cpu
  /\ disp' = cpu'
  /\ ticks' = 0
  /\ ops' = ops + 1
  /\ poked' = FALSE
  /\ UNCHANGED dis

Next == Clock \/ Irq \/ Nmi \/ Reset

Spec == Init /\ [][Next]_vars


\* ------------------------------------------------ programs run from reset

\* Byte values around every carry, sign and zero boundary.
Bytes == {0, 1, 15, 16, 63, 64, 80, 127, 128, 129, 160, 176, 208, 240, 254, 255}

\* The three vectors alone: NMI 0x9000, reset 0x8000, IRQ 0xA010.
Vectors == LoadBytes(NMI_POINTER, <<0, 144, 0, 128, 16, 160>>)

\* ADC #operand and SBC #operand, with C and D clear or set and with every
\* other flag set.
Arithmetic ==
  { Setup(LoadBytes(32768, <<o, operand, 234>>) @@ Vectors,
          32768, a, 5, 253, status, TRUE)
      : o \in {105, 233}, a \in Bytes, operand \in Bytes,
        status \in {32, 33, 40, 41, 235} }

\* JMP ($02FF), JMP ($02F0) and JMP ($FFFF) over 0x0200: 80, 0x02F0: 34 12,
\* 0x02FF: 00, 0x0300: 40, 0xFF00: 77.
JumpIndirect ==
  { Setup(LoadBytes(32768, <<108, lo, hi>>) @@ Vectors
            @@ (512 :> 128) @@ (752 :> 52) @@ (753 :> 18) @@ (768 :> 64)
            @@ (65280 :> 119),
          32768, 0, 0, 253, 32, FALSE)
      : lo \in {240, 255}, hi \in {2, 255} }

\* PHA, PLA at every end of the stack page.
PushPull ==
  { Setup(LoadBytes(32768, <<72, 104, 234>>) @@ Vectors,
          32768, a, 5, sp, status, TRUE)
      : a \in {0, 66, 128, 255}, sp \in {0, 1, 127, 253, 255},
        status \in {32, 162} }

\* PLP, and RTI, over a stack whose next byte is the given one.
PullFlags ==
  { Setup(LoadBytes(32768, <<o, 234>>) @@ Vectors
            @@ LoadBytes(384, <<byte, 52, 18>>),
          32768, 0, 0, 127, status, TRUE)
      : o \in {40, 64}, byte \in {0, 16, 32, 48, 207, 239, 255},
        status \in {32, 255} }

\* LDA #$42, STA $0200 and its like for X and Y, run from reset.
Stores ==
  { Setup(LoadBytes(32768, <<load, 66, store, 0, 2>>) @@ Vectors,
          32768, 0, 0, 253, 32, FALSE)
      : <<load, store>> \in {<<169, 141>>, <<162, 142>>, <<160, 140>>} }

\* Branches backward, forward, and forward past 0xFFFF.
FarBranches ==
  { Setup(LoadBytes(pc, <<o, operand, 234>>) @@ Vectors,
          pc, 0, 0, 253, 32, TRUE)
      : o \in {144, 176, 208, 240}, pc \in {32768, 65520},
        operand \in {16, 127, 128, 251} }

\* JSR $9000 at 0x8000 with RTS at 0x9000, from the stack pointer reset()
\* leaves and from both ends of the stack page.
Subroutines ==
  { Setup(LoadBytes(32768, <<32, 0, 144, 234>>) @@ (36864 :> 96) @@ Vectors,
          32768, 0, 0, sp, 32, sp # 253)
      : sp \in {0, 1, 253} }

\* PHP, then BRK: BRK meets the flags PHP leaves, and every host-set flag
\* byte; the IRQ vector holds 0xA010.
Breaks ==
  { Setup(LoadBytes(32768, <<8, 0, 234>>) @@ Vectors,
          32768, 0, 0, sp, status, TRUE)
      : sp \in {0, 2, 253}, status \in {0, 32, 36, 207, 255} }

\* CMP, CPX and CPY #operand with A below, at and above X and Y.
Compares ==
  { Setup(LoadBytes(32768, <<o, operand, 234>>) @@ Vectors,
          32768, a, xy, 253, status, TRUE)
      : o \in {201, 224, 192}, a \in {16, 80, 200}, xy \in {5, 80, 208},
        operand \in {0, 5, 80, 100, 208, 255}, status \in {32, 227} }

\* INX, INY, DEX, DEY on a register, and INC $10, DEC $10 on a byte, at
\* every boundary.
Steppers ==
  { Setup(LoadBytes(32768, <<o, 16, 234>>) @@ (16 :> byte) @@ Vectors,
          32768, 80, byte, 253, status, TRUE)
      : o \in {232, 200, 202, 136, 230, 198},
        byte \in {0, 1, 5, 127, 128, 255}, status \in {32, 162} }

\* TAX, TAY, TSX, TXA, TYA, TXS with A, X = Y and SP all different.
Transfers ==
  { Setup(LoadBytes(32768, <<o, 234>>) @@ Vectors,
          32768, a, xy, sp, status, TRUE)
      : o \in {170, 168, 186, 138, 152, 154}, a \in {0, 66, 128},
        xy \in {0, 5, 200}, sp \in {0, 127, 253}, status \in {32, 162} }

\* CLC, SEC, CLI, SEI, CLV, CLD, SED with the flags clear, set and mixed.
FlagOps ==
  { Setup(LoadBytes(32768, <<o, 234>>) @@ Vectors,
          32768, 80, 5, 253, status, TRUE)
      : o \in {24, 56, 88, 120, 184, 216, 248},
        status \in {32, 36, 105, 255} }

\* PHP, PLP with every flag clear, set and mixed, at every end of the stack
\* page.
StatusRoundTrip ==
  { Setup(LoadBytes(32768, <<8, 40, 234>>) @@ Vectors,
          32768, 80, 5, sp, status, TRUE)
      : sp \in {0, 1, 127, 253, 255},
        status \in {0, 16, 32, 33, 98, 140, 195, 239, 255} }

\* ASL, LSR, ROL, ROR on the accumulator and on the byte at 0x10, with the
\* carry clear and set.
Shifts ==
  { Setup(LoadBytes(32768, <<o, 16, 234>>) @@ (16 :> byte) @@ Vectors,
          32768, a, 5, 253, status, TRUE)
      : o \in {10, 6, 74, 70, 42, 38, 106, 102}, a \in {0, 1, 85, 128, 255},
        byte \in {0, 1, 64, 128, 129, 255}, status \in {32, 33, 227} }

\* The read-NOPs with the operand bytes F0 02 and an index that stays in
\* the page of 0x02F0 (0x05) or leaves it (0x20).
ReadNops ==
  { Setup(LoadBytes(32768, <<o, 240, 2, 234>>) @@ Vectors,
          32768, 80, xy, 253, 32, TRUE)
      : o \in {28, 60, 92, 124, 220, 252}, xy \in {5, 32} }

Programs ==
  Arithmetic \cup JumpIndirect \cup PushPull \cup PullFlags \cup Stores
    \cup FarBranches \cup Subroutines \cup Breaks \cup Compares
    \cup Steppers \cup Transfers \cup FlagOps
    \cup StatusRoundTrip \cup Shifts \cup ReadNops

\* The host loads the memory, calls reset() and then overrides the public
\* register fields it wants (tests/nestest.rs sets pc).
InitRun ==
  \E s \in Programs, checks \in BOOLEAN :
    /\ cpu = [reset([new(checks) EXCEPT !.ram = s.ram])
                EXCEPT !.pc = s.pc, !.a = s.a, !.x = s.x, !.y = s.y,
                       !.sp = s.sp, !.status = s.status]
    /\ op = "setup"
    /\ pre = cpu
    /\ disp = cpu
    /\ ticks = 0
    /\ ops = 0
    /\ poked = s.poked
    /\ dis = NotCalled

\* The host only calls clock(), as the loop of tests/nestest.rs does.
SpecRun == InitRun /\ [][Clock]_vars

\* ------------------------------------------------------- the disassembler

\* val as i8
AsI8(val) == IF val >= 128 THEN val - 256 ELSE val

\* The u32 that wraps the integer t, as its high and its low 16 bits.
AsU32(t) == <<(t \div 65536) % 65536, t % 65536>>

\* What an iteration of for_range adds to current_addr after the opcode
\* byte, per arm of its match.
Advance(mode) ==
  CASE mode \in {"IMP", "ACC"} -> 0
    [] mode \in {"IMM", "ZP0", "ZPX", "ZPY", "REL", "IZX", "IZY"} -> 1
    [] mode \in {"ABS", "ABX", "ABY", "IND"} -> 2

\* What the arm of the mode formats after the mnemonic, current_addr being
\* the address after the opcode byte: the values printed (for REL the byte
\* and the branch target) and the label in braces. The IMM arm prints the
\* label IMP; the ABY and IND arms read hi where they read lo.
Formatted(c, mode, current_addr) ==
  LET lo == read(c, current_addr % 65536)
  IN CASE mode \in {"IMP", "ACC"} ->
            [val |-> <<>>, label |-> IF mode = "IMP" THEN "IMP" ELSE ""]
       [] mode = "IMM" -> [val |-> <<lo>>, label |-> "IMP"]
       [] mode \in {"ZP0", "ZPX", "ZPY", "IZX", "IZY"} ->
            [val |-> <<lo>>, label |-> mode]
       [] mode \in {"ABS", "ABX"} ->
            [val |-> <<from_le_bytes(lo, read(c, (current_addr + 1) % 65536))>>,
             label |-> mode]
       [] mode \in {"ABY", "IND"} ->
            [val |-> <<from_le_bytes(lo, lo)>>, label |-> mode]
       [] mode = "REL" ->
            [val |-> <<lo, AsU32(current_addr + 1 + AsI8(lo))>>,
             label |-> mode]

\* The line pushed for the instruction ins at current_addr.
Line(c, ins, current_addr) ==
  [op_addr |-> current_addr % 65536, shown |-> current_addr,
   mnemonic |-> ins.mnemonic, mode |-> ins.mode,
   text |-> Formatted(c, ins.mode, current_addr + 1)]

\* One iteration of the while loop for the instruction ins: the ABS and ABX
\* arms add 1 to current_addr as u16 with the plain +, which overflows when
\* the opcode byte is at 0xFFFE.
Iterate(c, d, ins) ==
  IF /\ c.overflow_checks
     /\ ins.mode \in {"ABS", "ABX"}
     /\ (d.current_addr + 1) % 65536 = 65535
    THEN [d EXCEPT !.at = "panicked"]
    ELSE [d EXCEPT !.current_addr = @ + 1 + Advance(ins.mode),
                   !.instr_lines = Append(@, Line(c, ins, d.current_addr))]

\* for_range from the loop test on: another iteration, or the return.
for_range(c, d) ==
  IF d.current_addr <= d.stop
    THEN Iterate(c, d, decode(read(c, d.current_addr % 65536)))
    ELSE [d EXCEPT !.at = "returned"]

\* One opcode of every addressing mode the table uses.
ModeSamples == {234, 169, 165, 181, 182, 173, 189, 185, 108, 208, 161, 177}

\* The start of the program src/main.rs loads at 0x8000, and the top of the
\* memory filled with one opcode, or holding it at every third address with
\* the low byte of the address in between.
Listings ==
  { LoadBytes(32768, <<162, 0, 142, 0, 0, 162, 64, 142, 1, 0, 169, 0, 141,
                       16, 0, 56, 237, 16, 0, 144, 6, 202, 208, 211>>)
      @@ [k \in 65520..65535 |->
            IF spread /\ (k - 65520) % 3 # 0 THEN k % 256 ELSE o]
      @@ (0 :> 18) @@ (1 :> 52)
      : o \in ModeSamples, spread \in BOOLEAN }

\* The ranges asked for: in the program, empty, and up to the last address.
Ranges ==
  { <<32768, 32791>>, <<32768, 32780>>, <<32769, 32768>>, <<65535, 0>>,
    <<0, 0>>, <<65520, 65535>>, <<65521, 65534>>, <<65533, 65535>>,
    <<65534, 65535>>, <<65535, 65535>> }

\* The host loads the memory and calls for_range, as src/main.rs does.
InitDis ==
  \E ram \in Listings, range \in Ranges, checks \in BOOLEAN :
    /\ cpu = [new(checks) EXCEPT !.ram = ram]
    /\ op = "setup"
    /\ pre = cpu
    /\ disp = cpu
    /\ ticks = 0
    /\ ops = 0
    /\ poked = TRUE
    /\ dis = ForRangeEntry(range[1], range[2])

\* for_range runs on by one loop test.
ForRange ==
  /\ dis.at = "loop"
  /\ dis' = for_range(cpu, dis)
  /\ UNCHANGED <<cpu, op, pre, disp, ticks, ops, poked>>

SpecDis == InitDis /\ [][ForRange]_vars /\ WF_vars(ForRange)

\* ------------------------------------------------------- claims C1 to C10

\* The fields of struct CPU (the bus being its ram), without the bookkeeping
\* the model adds to them.
Fields ==
  {"ram", "status", "a", "x", "y", "sp", "pc", "fetched", "addr_abs",
   "addr_rel", "cycles_remaining", "opcode"}

Registers(c) == [f \in Fields |-> c[f]]

\* The instruction in flight has used up its last tick.
InstrDone == ticks > 0 /\ ~cpu.panicked /\ cpu.cycles_remaining = 0

\* C1: after reset() A, X and Y are 0, SP is 0xFD, P is 0x20, PC is
\* mem[0xFFFC] + 256 * mem[0xFFFD], addr_abs, addr_rel and fetched are 0,
\* cycles_remaining is 8, and no memory location has changed.
C1_ResetState ==
  op = "reset" =>
    /\ ~cpu.panicked
    /\ cpu.a = 0 /\ cpu.x = 0 /\ cpu.y = 0
    /\ cpu.sp = 253
    /\ cpu.status = 32
    /\ cpu.pc = read(pre, 65532) + 256 * read(pre, 65533)
    /\ cpu.addr_abs = 0 /\ cpu.addr_rel = 0 /\ cpu.fetched = 0
    /\ cpu.cycles_remaining = 8
    /\ cpu.ram = pre.ram
    /\ cpu.stk = {}

\* reset() has run on a CPU whose registers all held something else and
\* whose vector has two different non-zero bytes.
C1_Witness ==
  /\ op = "reset"
  /\ pre.a # 0 /\ pre.x # 0 /\ pre.sp # 253 /\ pre.status # 32
  /\ pre.cycles_remaining \notin {0, 8}
  /\ read(pre, 65532) # 0 /\ read(pre, 65533) # 0
  /\ read(pre, 65532) # read(pre, 65533)
  /\ cpu.pc = read(pre, 65532) + 256 * read(pre, 65533)

\* C2: whenever a clock() call that dispatched an instruction returns, the
\* U flag is set, in every state reached from construction or reset() by
\* clock(), irq() and nmi().
C2_UnusedFlagSet ==
  (~poked /\ op = "dispatch" /\ ~cpu.panicked) => contains(cpu.status, U)

\* The memory an interrupt entry leaves: PC high at 0x0100 + SP, PC low one
\* below, the status with B clear and U and I set one below that.
EntryRam(c) ==
  WriteRam(WriteRam(WriteRam(c.ram, 256 + c.sp, c.pc \div 256),
                    256 + c.sp - 1, c.pc % 256),
           256 + c.sp - 2, set(set(set(c.status, B, FALSE), U, TRUE), I, TRUE))

\* C3: irq() with I clear, and nmi(), from SP >= 3, write PC high to
\* 0x0100 + SP and PC low to 0x0100 + SP - 1, clear B and set U and I, write
\* P to 0x0100 + SP - 2, leave SP 3 lower and cycles_remaining at 7 (irq) or
\* 8 (nmi); A, X, Y and every other memory location are unchanged.
C3_InterruptEntry ==
  (/\ op \in {"irq", "nmi"}
   /\ op = "irq" => ~contains(pre.status, I)
   /\ pre.sp >= 3) =>
    /\ ~cpu.panicked
    /\ cpu.ram = EntryRam(pre)
    /\ cpu.status = set(set(set(pre.status, B, FALSE), U, TRUE), I, TRUE)
    /\ cpu.sp = pre.sp - 3
    /\ cpu.cycles_remaining = IF op = "irq" THEN 7 ELSE 8
    /\ cpu.a = pre.a /\ cpu.x = pre.x /\ cpu.y = pre.y
    /\ cpu.stk = {256 + pre.sp, 256 + pre.sp - 1, 256 + pre.sp - 2}

\* irq() was taken with B set and U and I clear, from a PC whose two bytes
\* differ, and changed the three stack bytes.
C3_Witness ==
  /\ op = "irq"
  /\ pre.sp >= 3
  /\ BitAnd(pre.status, B + U + I) = B
  /\ pre.pc \div 256 # pre.pc % 256
  /\ cpu.ram # pre.ram
  /\ read(cpu, 256 + pre.sp - 2) = pre.status - B + U + I

\* nmi() was taken with I set.
C3_WitnessNmi ==
  /\ op = "nmi"
  /\ pre.sp >= 3
  /\ contains(pre.status, I)
  /\ cpu.cycles_remaining = 8
  /\ cpu.sp = pre.sp - 3

\* C4: an interrupt entry loads PC little-endian from its vector: the low
\* byte from 0xFFFE (irq) or 0xFFFA (nmi), the high byte from the address
\* after it.
C4_VectorLittleEndian ==
  /\ (op = "irq" /\ ~contains(pre.status, I) /\ ~cpu.panicked) =>
       cpu.pc = read(pre, 65534) + 256 * read(pre, 65535)
  /\ (op = "nmi" /\ ~cpu.panicked) =>
       cpu.pc = read(pre, 65530) + 256 * read(pre, 65531)

\* C5: irq() with I set is ignored: registers, flags, memory and
\* cycles_remaining are all unchanged.
C5_MaskedIrqIgnored ==
  (op = "irq" /\ contains(pre.status, I)) =>
    /\ ~cpu.panicked
    /\ Registers(cpu) = Registers(pre)
    /\ cpu.stk = {}

\* irq() was called with I set in the middle of an instruction, with a
\* vector that would have moved PC.
C5_Witness ==
  /\ op = "irq"
  /\ contains(pre.status, I)
  /\ pre.cycles_remaining \notin {0, 7}
  /\ pre.pc # from_be_bytes(read(pre, 65534), read(pre, 65535))
  /\ pre.pc # from_le_bytes(read(pre, 65534), read(pre, 65535))
  /\ cpu.pc = pre.pc

\* The bytes an instruction pushes (negative) or pulls (positive).
StackDelta(mnemonic) ==
  CASE mnemonic \in {"PHA", "PHP"} -> -1
    [] mnemonic \in {"PLA", "PLP"} -> 1
    [] mnemonic = "JSR" -> -2
    [] mnemonic = "RTS" -> 2
    [] mnemonic = "BRK" -> -3
    [] mnemonic = "RTI" -> 3
    [] OTHER -> 0

\* A call that moved delta bytes stayed in the stack page and moved SP by
\* delta modulo 256.
InStackPage(delta) ==
  /\ ~cpu.panicked
  /\ cpu.stk \subseteq 256..511
  /\ Cardinality(cpu.stk) = IF delta < 0 THEN -delta ELSE delta
  /\ cpu.sp = (pre.sp + delta) % 256

\* C6: for every SP every address read or written by a push or pull (PHA,
\* PHP, PLA, PLP, JSR, RTS, BRK, RTI, irq(), nmi()) lies in 0x0100..0x01FF,
\* and SP changes by the number of bytes pushed or pulled modulo 256, also at
\* SP = 0x00 on a push and SP = 0xFF on a pull.
C6_StackStaysInPage ==
  /\ (op = "dispatch" /\ cpu.opcode \in StackOpcodes) =>
       InStackPage(StackDelta(decode(cpu.opcode).mnemonic))
  /\ (op = "nmi" \/ (op = "irq" /\ ~contains(pre.status, I))) =>
       InStackPage(-3)

\* The decrement that ends clock() took before to after: before is at least
\* 1 and after is one less, and nothing failed that had not failed already.
DecrementHolds(before, after) ==
  /\ after.panicked => before.panicked
  /\ ~after.panicked =>
       /\ before.cycles_remaining >= 1
       /\ after.cycles_remaining = before.cycles_remaining - 1

\* C7: in every state reached through new, reset, clock, irq and nmi, the
\* decrement at the end of clock() is applied to a value of at least 1: it
\* never underflows.
C7_DecrementNeverUnderflows ==
  op \in {"dispatch", "wait"} => DecrementHolds(ClockBody(Begin(pre)), cpu)

\* A dispatching clock() ran in a build with overflow checks and returned,
\* and a waiting clock() took the last cycle owed.
C7_Witness ==
  /\ op = "wait"
  /\ cpu.overflow_checks
  /\ ~cpu.panicked
  /\ ticks >= 2
  /\ pre.cycles_remaining = 1
  /\ cpu.cycles_remaining = 0

\* C8: clock() called with cycles_remaining > 0 only decrements
\* cycles_remaining: PC, A, X, Y, SP, P, the opcode, the operand fields and
\* memory are unchanged.
C8_WaitingTickOnlyCounts ==
  op = "wait" =>
    /\ ~cpu.panicked
    /\ cpu.stk = {}
    /\ Registers(cpu) = [Registers(pre) EXCEPT !.cycles_remaining = @ - 1]

\* clock() was called in the middle of an instruction whose first byte is
\* not where PC points any more, with more cycles still owed after it.
C8_Witness ==
  /\ op = "wait"
  /\ ticks >= 2
  /\ cpu.cycles_remaining > 0
  /\ read(cpu, cpu.pc) # cpu.opcode
  /\ cpu.pc # disp.pc
  /\ cpu.ram # disp.ram

ReadMnemonics ==
  {"LDA", "LDX", "LDY", "ADC", "SBC", "AND", "ORA", "EOR", "CMP"}

\* The base address of the indexed access of the instruction at d.pc: the
\* operand word (ABX, ABY) or the zero-page word the operand byte names (IZY).
BaseAddress(d) ==
  IF decode(read(d, d.pc)).mode = "IZY"
  THEN read(d, read(d, (d.pc + 1) % 65536))
       + 256 * read(d, (read(d, (d.pc + 1) % 65536) + 1) % 256)
  ELSE read(d, (d.pc + 1) % 65536) + 256 * read(d, (d.pc + 2) % 65536)

IndexRegister(d) == IF decode(read(d, d.pc)).mode = "ABX" THEN d.x ELSE d.y

\* Adding the index changes the high byte of the base address.
PageCrossed(base, index) == ((base + index) % 65536) \div 256 # base \div 256

\* mode_hint AND op_hint of the instruction at d.pc.
HintsJoined(d) == Execute(Addressing(FetchOpcode(d))).ret

\* The ticks C9 gives the non-branch instruction at d.pc.
NonBranchCost(d) ==
  decode(read(d, d.pc)).cycles
  + IF /\ decode(read(d, d.pc)).mode \in {"ABX", "ABY", "IZY"}
       /\ decode(read(d, d.pc)).mnemonic \in ReadMnemonics
       /\ PageCrossed(BaseAddress(d), IndexRegister(d))
    THEN 1 ELSE 0

\* C9: a non-branch instruction occupies base_cycles + (mode_hint AND
\* op_hint) clock() calls; a read (LDA, LDX, LDY, ADC, SBC, AND, ORA, EOR,
\* CMP) through ABX, ABY or IZY costs base + 1 exactly when adding the index
\* changes the high byte of the base address and base otherwise; stores and
\* read-modify-writes through those modes always cost base.
C9_NonBranchCost ==
  /\ (InstrDone /\ cpu.opcode \notin BranchOpcodes) =>
       /\ ticks = decode(cpu.opcode).cycles + HintsJoined(Begin(disp))
       /\ ticks = NonBranchCost(disp)
  /\ (op = "dispatch" /\ decode(cpu.opcode).mode \in {"ABX", "ABY", "IZY"}) =>
       /\ ~cpu.panicked
       /\ cpu.cycles_remaining = NonBranchCost(pre) - 1

\* The flag a branch tests and the value it branches on.
BranchTaken(d) ==
  LET o == read(d, d.pc)
  IN CASE o = 16  -> ~contains(d.status, N)
       [] o = 48  -> contains(d.status, N)
       [] o = 80  -> ~contains(d.status, V)
       [] o = 112 -> contains(d.status, V)
       [] o = 144 -> ~contains(d.status, C)
       [] o = 176 -> contains(d.status, C)
       [] o = 208 -> ~contains(d.status, Z)
       [] o = 240 -> contains(d.status, Z)

\* The address just past the branch's operand, and the branch's target.
PastOperand(d) == (d.pc + 2) % 65536

BranchTarget(d) ==
  LET offset == read(d, (d.pc + 1) % 65536)
  IN (PastOperand(d) + IF offset >= 128 THEN offset - 256 ELSE offset) % 65536

\* The ticks C10 gives the branch at d.pc.
BranchCost(d) ==
  IF ~BranchTaken(d) THEN 2
  ELSE IF BranchTarget(d) \div 256 = PastOperand(d) \div 256 THEN 3
  ELSE 4

\* C10: a branch costs 2 ticks when not taken (PC then just past the
\* operand), 3 when taken to the same page as the address just past the
\* operand, and 4 when taken to another page.
C10_BranchCost ==
  /\ (op = "dispatch" /\ cpu.opcode \in BranchOpcodes) =>
       /\ ~cpu.panicked
       /\ cpu.cycles_remaining = BranchCost(pre) - 1
       /\ ~BranchTaken(pre) => cpu.pc = PastOperand(pre)
  /\ (InstrDone /\ cpu.opcode \in BranchOpcodes) => ticks = BranchCost(disp)

\* ------------------------------------------------------ claims C11 to C20

\* C11: every taken branch leaves PC at (PC just past the operand +
\* addr_rel) modulo 2^16, addr_rel being the operand byte sign-extended: a
\* backward branch lands at PC - (256 - operand) without any arithmetic
\* failure and a forward branch near 0xFFFF wraps to low memory.
C11_BranchTargetWraps ==
  (op = "dispatch" /\ cpu.opcode \in BranchOpcodes /\ BranchTaken(pre)) =>
    /\ ~cpu.panicked
    /\ cpu.pc = BranchTarget(pre)

\* The pointer a JMP indirect at d.pc names.
Pointer(d) ==
  read(d, (d.pc + 1) % 65536) + 256 * read(d, (d.pc + 2) % 65536)

\* C12: JMP indirect (0x6C) with a pointer whose low byte is 0xFF sets PC
\* to mem[pointer] + 256 * mem[pointer & 0xFF00]: the low byte of the
\* target comes from the pointer itself and the high byte from the start of
\* the same page; with mem[0x02FF] = 0x00, mem[0x0300] = 0x40 and
\* mem[0x0200] = 0x80, JMP ($02FF) sets PC to 0x8000.
C12_JmpIndirectPageWrap ==
  (op = "dispatch" /\ cpu.opcode = 108 /\ Pointer(pre) % 256 = 255) =>
    /\ ~cpu.panicked
    /\ cpu.pc = read(pre, Pointer(pre))
                  + 256 * read(pre, BitAnd(Pointer(pre), 65280))

Mnemonic(c) == decode(c.opcode).mnemonic

\* The byte at the effective address of the instruction just dispatched, as
\* it was before the dispatch.
Operand == read(pre, cpu.addr_abs)

\* The sum ADC forms: A + operand + carry in.
Sum == pre.a + Operand + BoolToInt(contains(pre.status, C))

SignBit(byte) == byte >= 128

\* C13: ADC with s = A + operand + C leaves A = s mod 256, C = (s > 255),
\* Z = (s mod 256 = 0), N = bit 7 of s, and V set exactly when A and the
\* operand have the same sign bit and the result's differs, that is when
\* ((A xor result) and (operand xor result) and 0x80) is not 0.
C13_AdcResult ==
  (op = "dispatch" /\ Mnemonic(cpu) = "ADC" /\ ~cpu.panicked) =>
    /\ cpu.a = Sum % 256
    /\ contains(cpu.status, C) <=> Sum > 255
    /\ contains(cpu.status, Z) <=> Sum % 256 = 0
    /\ contains(cpu.status, N) <=> SignBit(Sum % 256)
    /\ contains(cpu.status, V) <=>
         /\ SignBit(pre.a) = SignBit(Operand)
         /\ SignBit(Sum % 256) # SignBit(pre.a)
    /\ contains(cpu.status, V) <=>
         BitAnd(BitAnd(BitXor(pre.a, Sum % 256), BitXor(Operand, Sum % 256)),
                128) # 0

\* ADC #$50 with A = 0x50 and C clear left A = 0xA0 with V and N set and Z
\* and C clear.
C13_Witness ==
  /\ op = "dispatch"
  /\ cpu.opcode = 105
  /\ pre.a = 80 /\ Operand = 80 /\ ~contains(pre.status, C)
  /\ cpu.a = 160
  /\ contains(cpu.status, V) /\ contains(cpu.status, N)
  /\ ~contains(cpu.status, Z) /\ ~contains(cpu.status, C)

\* The memory before the dispatch with the SBC just dispatched replaced by
\* the ADC of the same addressing mode (its opcode less 0x80) and the byte
\* at the effective address inverted.
AsAdc(d, address) ==
  [d EXCEPT !.ram = WriteRam(WriteRam(d.ram, d.pc, read(d, d.pc) - 128),
                             address, BitXor(read(d, address), 255))]

\* What ADC and SBC put out: A, the flags, and the cycles the dispatch owes
\* (the base cycles and the extra-cycle hint).
Outputs(c) ==
  [a |-> c.a, status |-> c.status, cycles_remaining |-> c.cycles_remaining,
   panicked |-> c.panicked]

SbcExample ==
  /\ op = "dispatch"
  /\ cpu.opcode = 233
  /\ pre.a = 80 /\ Operand = 240 /\ contains(pre.status, C)

\* C15: starting with A = 0x50 and C = 1, SBC #$F0 leaves A = 0x60, C = 0,
\* V = 1, N = 0 and Z = 0.
C15_SbcExample ==
  SbcExample =>
    /\ cpu.a = 96
    /\ ~contains(cpu.status, C)
    /\ contains(cpu.status, V)
    /\ ~contains(cpu.status, N)
    /\ ~contains(cpu.status, Z)

\* C15 as the code has it: starting with A = 0x50 and C = 1, SBC #$F0
\* leaves A = 0x60, C = 0, V = 0, N = 0 and Z = 0 (0x50 - 0xF0 is 80 + 16 =
\* 96 as signed bytes, which does not overflow).
C15_SbcExampleNoOverflow ==
  SbcExample =>
    /\ cpu.a = 96
    /\ ~contains(cpu.status, C)
    /\ ~contains(cpu.status, V)
    /\ ~contains(cpu.status, N)
    /\ ~contains(cpu.status, Z)

\* The example ran from a state with V, N and Z set.
C15_Witness ==
  /\ SbcExample
  /\ contains(pre.status, V) /\ contains(pre.status, N)
  /\ contains(pre.status, Z)
  /\ cpu.a = 96

\* The same CPU with the D flag the other way.
FlipD(c) == [c EXCEPT !.status = BitXor(@, D)]

\* C16: the decimal flag never alters arithmetic: two CPU states that differ
\* only in the D flag yield identical A, C, Z, V and N after ADC and after
\* SBC, and both instructions leave D itself unchanged.
C16_DecimalFlagIgnored ==
  (op = "dispatch" /\ Mnemonic(cpu) \in {"ADC", "SBC"}) =>
    /\ Outputs(FlipD(cpu)) = Outputs(clock(Begin(FlipD(pre))))
    /\ contains(cpu.status, D) <=> contains(pre.status, D)

\* ADC #$01 ran with D set and A = 0x0F, and left the binary sum 0x10 in A
\* and D set.
C16_Witness ==
  /\ op = "dispatch"
  /\ cpu.opcode = 105
  /\ contains(pre.status, D)
  /\ pre.a = 15 /\ Operand = 1
  /\ cpu.a = 16
  /\ contains(cpu.status, D)

\* The operand bytes of an addressing mode.
OperandBytes(mode) ==
  CASE mode = "IMP" -> 0
    [] mode \in {"IMM", "ZP0", "ZPX", "ZPY", "REL", "IZX", "IZY"} -> 1
    [] mode \in {"ABS", "ABX", "ABY", "IND"} -> 2

\* The instructions that set PC themselves.
SetsPc(d) ==
  \/ decode(read(d, d.pc)).mnemonic \in {"JMP", "JSR", "RTS", "RTI", "BRK"}
  \/ read(d, d.pc) \in BranchOpcodes /\ BranchTaken(d)

\* C17: for every opcode other than JMP, JSR, RTS, RTI, BRK and taken
\* branches, after the dispatching clock() PC is (PC before the dispatch +
\* 1 + n) mod 2^16, n being the operand bytes of the opcode's addressing
\* mode: 0 for IMP, 1 for IMM, ZP0, ZPX, ZPY, REL, IZX and IZY, 2 for ABS,
\* ABX, ABY and IND.
C17_PcAdvance ==
  (op = "dispatch" /\ ~SetsPc(pre)) =>
    /\ ~cpu.panicked
    /\ cpu.pc = (pre.pc + 1 + OperandBytes(decode(cpu.opcode).mode)) % 65536

\* Z is (A = 0) and N is bit 7 of A.
FlagsOfA(c) ==
  /\ contains(c.status, Z) <=> c.a = 0
  /\ contains(c.status, N) <=> c.a >= 128

\* The PLA that follows a PHA, on the CPU the PHA left (the ticks between
\* the two change nothing else): A and SP are what they were before the
\* PHA, Z and N are those of A, and the pushed byte is still where it was
\* written.
PlaUndoesPha(before, after) ==
  /\ ~after.panicked
  /\ after.a = before.a
  /\ after.sp = before.sp
  /\ FlagsOfA(after)
  /\ read(after, 256 + before.sp) = before.a

\* C18: for every A and SP, PHA writes A to 0x0100 + SP and decrements SP;
\* a following PLA increments SP, reloads A with that byte and sets Z =
\* (A = 0) and N = bit 7 of A, so that after PHA then PLA both A and SP are
\* what they were before the PHA and the pushed byte is still in memory
\* where it was written.
C18_PhaPlaRoundTrip ==
  /\ (op = "dispatch" /\ cpu.opcode = 72) =>
       /\ ~cpu.panicked
       /\ cpu.ram = WriteRam(pre.ram, 256 + pre.sp, pre.a)
       /\ cpu.sp = (pre.sp - 1) % 256
       /\ cpu.a = pre.a
  /\ (op = "dispatch" /\ cpu.opcode = 104) =>
       /\ ~cpu.panicked
       /\ cpu.sp = (pre.sp + 1) % 256
       /\ cpu.a = read(pre, 256 + cpu.sp)
       /\ FlagsOfA(cpu)
       /\ cpu.ram = pre.ram
  /\ (op = "dispatch" /\ cpu.opcode = 72 /\ read(cpu, cpu.pc) = 104) =>
       PlaUndoesPha(pre, clock(Begin([cpu EXCEPT !.cycles_remaining = 0])))

\* The byte PLP and RTI pull into P: the one above SP in the stack page.
PulledStatus(d) == read(d, 256 + ((d.sp + 1) % 256))

\* C19: after an instruction that reloads P from the stack (PLP or RTI),
\* for every byte on the stack, U is 1, B is 0 and the other six flags C,
\* Z, I, D, V and N are the corresponding bits of the byte pulled.
C19_PulledStatus ==
  (op = "dispatch" /\ cpu.opcode \in {40, 64} /\ ~cpu.panicked) =>
    /\ contains(cpu.status, U)
    /\ ~contains(cpu.status, B)
    /\ BitAnd(cpu.status, 255 - B - U) = BitAnd(PulledStatus(pre), 255 - B - U)

\* The register a store writes.
Stored(mnemonic, d) ==
  CASE mnemonic = "STA" -> d.a
    [] mnemonic = "STX" -> d.x
    [] mnemonic = "STY" -> d.y

\* C20: STA, STX and STY write A, X or Y to mem[addr_abs] and change no
\* register or flag; so A9 42 8D 00 02 at 0x8000 (LDA #$42, STA $0200),
\* run from reset with the reset vector 0x8000, leaves A = 0x42,
\* mem[0x0200] = 0x42, Z = 0 and N = 0 after its two instructions.
C20_Stores ==
  /\ (op = "dispatch" /\ Mnemonic(cpu) \in {"STA", "STX", "STY"}
        /\ ~cpu.panicked) =>
       /\ cpu.ram = WriteRam(pre.ram, cpu.addr_abs, Stored(Mnemonic(cpu), pre))
       /\ cpu.a = pre.a /\ cpu.x = pre.x /\ cpu.y = pre.y
       /\ cpu.sp = pre.sp /\ cpu.status = pre.status
  /\ (~poked /\ InstrDone /\ cpu.opcode = 141 /\ disp.pc = 32770
        /\ read(disp, 32768) = 169 /\ read(disp, 32769) = 66
        /\ read(disp, 32771) = 0 /\ read(disp, 32772) = 2) =>
       /\ cpu.a = 66
       /\ read(cpu, 512) = 66
       /\ ~contains(cpu.status, Z) /\ ~contains(cpu.status, N)

\* ------------------------------------------------------ claims C21 to C30

\* The word on the stack above the stack pointer of d, low byte first.
StackWord(d) ==
  read(d, STACK_BASE + ((d.sp + 1) % 256))
    + 256 * read(d, STACK_BASE + ((d.sp + 2) % 256))

\* The operand word of the instruction at d.pc, low byte first.
OperandWord(d) == Pointer(d)

\* C21: JSR at address a pushes the high then the low byte of a + 2, lowers
\* SP by 2 and sets PC to its operand address; RTS raises SP by 2, pulls the
\* word it passes low byte first and sets PC to that word + 1, so that JSR
\* followed at once by RTS leaves PC = a + 3 and SP as it was.
C21_JsrRts ==
  /\ (op = "dispatch" /\ Mnemonic(cpu) = "JSR") =>
       /\ ~cpu.panicked
       /\ read(cpu, STACK_BASE + pre.sp) = ((pre.pc + 2) % 65536) \div 256
       /\ read(cpu, STACK_BASE + ((pre.sp - 1) % 256)) = (pre.pc + 2) % 256
       /\ cpu.sp = (pre.sp - 2) % 256
       /\ cpu.pc = OperandWord(pre)
  /\ (op = "dispatch" /\ Mnemonic(cpu) = "RTS") =>
       /\ ~cpu.panicked
       /\ cpu.sp = (pre.sp + 2) % 256
       /\ cpu.pc = (StackWord(pre) + 1) % 65536

\* The address the vector at pointer names, low byte first: where the
\* handler of the interrupt starts.
Handler(c, pointer) ==
  read(c, pointer) + 256 * read(c, (pointer + 1) % 65536)

\* The state once the cycles of the interrupt entry have passed and the next
\* instruction has been dispatched.
HandlerStep(c) == ClockBody([c EXCEPT !.cycles_remaining = 0, !.stk = {}])

Restores(before, after) ==
  /\ ~after.panicked
  /\ after.pc = before.pc
  /\ after.sp = before.sp

\* C22: RTI pulls P, PC low and PC high in that order, raising SP by 3, and
\* sets PC to the pulled word, low byte first, with nothing added; so a taken
\* irq() or nmi() whose handler starts with RTI is back at the PC and SP it
\* interrupted once that RTI has run.
C22_RtiReturns ==
  /\ (op = "dispatch" /\ Mnemonic(cpu) = "RTI") =>
       /\ ~cpu.panicked
       /\ cpu.sp = (pre.sp + 3) % 256
       /\ cpu.pc = read(pre, STACK_BASE + ((pre.sp + 2) % 256))
                     + 256 * read(pre, STACK_BASE + ((pre.sp + 3) % 256))
       /\ BitAnd(cpu.status, 255 - B - U)
            = BitAnd(PulledStatus(pre), 255 - B - U)
  /\ (/\ op \in {"irq", "nmi"}
      /\ op = "irq" => ~contains(pre.status, I)
      /\ read(pre, Handler(pre, IF op = "irq" THEN IRQ_POINTER
                                ELSE NMI_POINTER)) = 64) =>
       Restores(pre, HandlerStep(cpu))

\* The PC BRK pushes: past the opcode and the operand byte the table gives
\* BRK, and one more.
BrkReturn(d) == (d.pc + 3) % 65536

\* C23: BRK, from any flags, pushes the high then the low byte of the
\* incremented PC, then P with B, U and I all 1 and the other bits as they
\* are, leaves SP 3 lower and I set, and loads PC from 0xFFFE/0xFFFF, low
\* byte first.
C23_Brk ==
  (op = "dispatch" /\ Mnemonic(cpu) = "BRK") =>
    /\ ~cpu.panicked
    /\ read(cpu, STACK_BASE + pre.sp) = BrkReturn(pre) \div 256
    /\ read(cpu, STACK_BASE + ((pre.sp - 1) % 256)) = BrkReturn(pre) % 256
    /\ read(cpu, STACK_BASE + ((pre.sp - 2) % 256))
         = set(set(set(pre.status, B, TRUE), U, TRUE), I, TRUE)
    /\ cpu.sp = (pre.sp - 3) % 256
    /\ contains(cpu.status, I)
    /\ cpu.pc = Handler(pre, IRQ_POINTER)

\* C24: no call aborts: for every opcode, register state and memory, a
\* dispatching clock(), irq(), nmi() and reset() return, their arithmetic
\* wrapping (a zero-page operand + X over 255, an absolute or indirect base +
\* index over 0xFFFF, INC of 0xFF, a push at SP = 0, a pull at SP = 0xFF, an
\* indirect pointer of 0xFFFF).
C24_NoAbort ==
  op \in {"dispatch", "wait", "irq", "nmi", "reset"} => ~cpu.panicked

\* C25: irq() and nmi() do not pre-empt an instruction: called while
\* cycles_remaining > 0 they take effect only at the instruction boundary,
\* so the call itself leaves PC, SP, the memory and the cycles the
\* instruction still owes as they are.
C25_InterruptWaits ==
  (/\ op \in {"irq", "nmi"}
   /\ op = "irq" => ~contains(pre.status, I)
   /\ pre.cycles_remaining > 0) =>
    /\ ~cpu.panicked
    /\ cpu.cycles_remaining = pre.cycles_remaining
    /\ cpu.pc = pre.pc
    /\ cpu.sp = pre.sp
    /\ cpu.ram = pre.ram

\* The lines are in strictly increasing address order from start, none
\* past stop, each one 1 + the operand bytes of its mode after the one before.
InOrder(lines, start, stop) ==
  /\ \A i \in 1..Len(lines) : lines[i].op_addr <= stop
  /\ Len(lines) > 0 => lines[1].op_addr = start
  /\ \A i \in 1..(Len(lines) - 1) :
       /\ lines[i].op_addr < lines[i + 1].op_addr
       /\ lines[i + 1].op_addr
            = lines[i].op_addr + 1 + OperandBytes(lines[i].mode)

\* C26: Disassembler::for_range(cpu, start, stop) returns for every start and
\* stop, stop = 0xFFFF included, never changes the CPU or its memory, and
\* returns lines in strictly increasing address order: the first at start
\* when start <= stop, every address at most stop, and each address the one
\* before + 1 + the operand bytes of that line's mode.
C26_ForRange ==
  /\ [](/\ dis.at # "panicked"
        /\ InOrder(dis.instr_lines, dis.start, dis.stop)
        /\ (dis.at = "returned" /\ dis.start <= dis.stop) =>
             Len(dis.instr_lines) > 0)
  /\ [][cpu' = cpu]_vars
  /\ <>(dis.at = "returned")

\* The register a compare instruction compares.
Compared(mnemonic, d) ==
  CASE mnemonic = "CMP" -> d.a
    [] mnemonic = "CPX" -> d.x
    [] mnemonic = "CPY" -> d.y

\* What a compare of the register value reg leaves.
ComparesWith(reg) ==
  /\ ~cpu.panicked
  /\ contains(cpu.status, C) <=> reg >= Operand
  /\ contains(cpu.status, Z) <=> reg = Operand
  /\ contains(cpu.status, N) <=> SignBit((reg - Operand) % 256)
  /\ cpu.a = pre.a /\ cpu.x = pre.x /\ cpu.y = pre.y

\* C28: CMP, CPX and CPY compare A, X and Y: C = (register >= operand),
\* Z = (register = operand), N = bit 7 of (register - operand) mod 256, and
\* no register changes; the carry of CPX and CPY follows X and Y, not A.
C28_Compares ==
  (op = "dispatch" /\ Mnemonic(cpu) \in {"CMP", "CPX", "CPY"}) =>
    ComparesWith(Compared(Mnemonic(cpu), pre))

\* Z and N of the status of c say that value is zero, and has bit 7 set.
ZNFrom(c, value) ==
  /\ contains(c.status, Z) <=> value = 0
  /\ contains(c.status, N) <=> SignBit(value)

\* What the instruction of the given mnemonic leaves when it steps the
\* register or the byte at addr_abs from d to c.
Stepped(mnemonic, d, c) ==
  CASE mnemonic = "INX" -> c.x = (d.x + 1) % 256 /\ ZNFrom(c, c.x)
    [] mnemonic = "INY" -> c.y = (d.y + 1) % 256 /\ ZNFrom(c, c.y)
    [] mnemonic = "DEX" -> c.x = (d.x - 1) % 256 /\ ZNFrom(c, c.x)
    [] mnemonic = "DEY" -> c.y = (d.y - 1) % 256 /\ ZNFrom(c, c.y)
    [] mnemonic = "INC" ->
         /\ read(c, c.addr_abs) = (read(d, c.addr_abs) + 1) % 256
         /\ ZNFrom(c, read(c, c.addr_abs))
    [] mnemonic = "DEC" ->
         /\ read(c, c.addr_abs) = (read(d, c.addr_abs) - 1) % 256
         /\ ZNFrom(c, read(c, c.addr_abs))

\* C29: INX, INY, DEX and DEY leave the register at (register +- 1) mod 256
\* (DEX of 5 gives 4, DEX of 0 gives 0xFF), INC and DEC write (byte +- 1)
\* mod 256 (INC of 0xFF gives 0x00 with Z set), and Z and N follow the
\* result.
C29_Steps ==
  (/\ op = "dispatch"
   /\ Mnemonic(cpu) \in {"INX", "INY", "DEX", "DEY", "INC", "DEC"}) =>
    /\ ~cpu.panicked
    /\ Stepped(Mnemonic(cpu), pre, cpu)

\* What the transfer of the given mnemonic leaves: the destination holds the
\* source, Z and N follow it, and TXS leaves the flags alone.
Transferred(mnemonic, d, c) ==
  CASE mnemonic = "TAX" -> c.x = d.a /\ ZNFrom(c, c.x)
    [] mnemonic = "TAY" -> c.y = d.a /\ ZNFrom(c, c.y)
    [] mnemonic = "TSX" -> c.x = d.sp /\ ZNFrom(c, c.x)
    [] mnemonic = "TXA" -> c.a = d.x /\ ZNFrom(c, c.a)
    [] mnemonic = "TYA" -> c.a = d.y /\ ZNFrom(c, c.a)
    [] mnemonic = "TXS" -> c.sp = d.x /\ c.status = d.status

\* C30: TAX, TAY, TSX, TXA, TYA and TXS copy the source register to the
\* destination; all but TXS set Z and N from the destination, and TXS
\* changes no flag.
C30_Transfers ==
  (/\ op = "dispatch"
   /\ Mnemonic(cpu) \in {"TAX", "TAY", "TSX", "TXA", "TYA", "TXS"}) =>
    /\ ~cpu.panicked
    /\ Transferred(Mnemonic(cpu), pre, cpu)

\* ------------------------------------------------------ claims C31 to C40

\* The flag a flag instruction names, and the value it gives it.
NamedFlag(mnemonic) ==
  CASE mnemonic \in {"CLC", "SEC"} -> C
    [] mnemonic \in {"CLD", "SED"} -> D
    [] mnemonic \in {"CLI", "SEI"} -> I
    [] mnemonic = "CLV" -> V

FlagMnemonics == {"CLC", "SEC", "CLD", "SED", "CLI", "SEI", "CLV"}

\* C31: SEC, SED and SEI set, and CLC, CLD, CLI and CLV clear, the flag they
\* name, whatever it was, and change no other flag, no register and no
\* memory byte.
C31_FlagInstructions ==
  (op = "dispatch" /\ Mnemonic(cpu) \in FlagMnemonics) =>
    /\ ~cpu.panicked
    /\ cpu.status = set(pre.status, NamedFlag(Mnemonic(cpu)),
                        Mnemonic(cpu) \in {"SEC", "SED", "SEI"})
    /\ cpu.a = pre.a /\ cpu.x = pre.x /\ cpu.y = pre.y /\ cpu.sp = pre.sp
    /\ cpu.ram = pre.ram

\* The flags C, Z, I, D, V and N of a status byte.
SixFlags(status) == BitAnd(status, C + Z + I + D + V + N)

\* The PLP that follows a PHP, on the CPU the PHP left: SP and the six
\* flags are what they were before the PHP.
PlpUndoesPhp(before, after) ==
  /\ ~after.panicked
  /\ after.sp = before.sp
  /\ SixFlags(after.status) = SixFlags(before.status)
  /\ \A flag \in {C, Z, I, D, V, N} :
       contains(after.status, flag) <=> contains(before.status, flag)

\* C32: PHP writes P with B and U forced to 1 to 0x0100 + SP and decrements
\* SP; PHP followed by PLP leaves SP and the flags C, Z, I, D, V and N as
\* they were before the PHP: the status byte survives the trip through the
\* stack with C in bit 0, Z in 1, I in 2, D in 3, B in 4, U in 5, V in 6 and
\* N in 7.
C32_PhpPlpRoundTrip ==
  /\ (op = "dispatch" /\ Mnemonic(cpu) = "PHP") =>
       /\ ~cpu.panicked
       /\ read(cpu, STACK_BASE + pre.sp) = BitOr(pre.status, B + U)
       /\ read(cpu, STACK_BASE + pre.sp)
            = SixFlags(pre.status) + 16 + 32
       /\ cpu.sp = (pre.sp - 1) % 256
  /\ (op = "dispatch" /\ Mnemonic(cpu) = "PHP" /\ read(cpu, cpu.pc) = 40) =>
       PlpUndoesPhp(pre, clock(Begin([cpu EXCEPT !.cycles_remaining = 0])))

\* PHP at SP = 0x00 with C, Z, V and N set and B and U clear pushed 0xF3 to
\* 0x0100, wrapped SP to 0xFF, and a PLP comes next.
C32_Witness ==
  /\ op = "dispatch"
  /\ cpu.opcode = 8
  /\ pre.sp = 0
  /\ pre.status = 195
  /\ read(cpu, 256) = 243
  /\ cpu.sp = 255
  /\ read(cpu, cpu.pc) = 40

\* The addressing mode of the instruction just dispatched, and the operand
\* byte that followed its opcode.
Mode(c) == decode(c.opcode).mode

OperandByte == read(pre, (pre.pc + 1) % 65536)

\* C33: for ZPX and ZPY, for every operand byte and every X or Y, addr_abs
\* is (operand + index) mod 256: the effective address never leaves page
\* zero, also when operand + index is over 255.
C33_ZeroPageIndexed ==
  (op = "dispatch" /\ Mode(cpu) \in {"ZPX", "ZPY"}) =>
    /\ ~cpu.panicked
    /\ cpu.addr_abs
         = (OperandByte + (IF Mode(cpu) = "ZPX" THEN pre.x ELSE pre.y)) % 256
    /\ cpu.addr_abs <= 255

\* The word in page zero at pointer p, low byte first, the second byte
\* wrapping to 0x0000 after 0x00FF.
ZeroPageWord(d, p) == read(d, p % 256) + 256 * read(d, (p + 1) % 256)

\* C34: IZX and IZY read their base from page zero, low byte first and
\* with wrap: for IZX addr_abs is the word at (operand + X) mod 256; for IZY
\* addr_abs is (the word at operand + Y) mod 2^16, and the hint is 1 exactly
\* when the high byte of addr_abs differs from the high byte of that word.
C34_ZeroPageIndirect ==
  /\ (op = "dispatch" /\ Mode(cpu) = "IZX") =>
       /\ ~cpu.panicked
       /\ cpu.addr_abs = ZeroPageWord(pre, OperandByte + pre.x)
  /\ (op = "dispatch" /\ Mode(cpu) = "IZY") =>
       /\ ~cpu.panicked
       /\ cpu.addr_abs = (ZeroPageWord(pre, OperandByte) + pre.y) % 65536
       /\ izy(FetchOpcode(pre)).ret
            = IF cpu.addr_abs \div 256 # read(pre, (OperandByte + 1) % 256)
              THEN 1 ELSE 0

\* The result and the carry out of a shift or rotate of operand with the
\* carry in.
ShiftOf(mnemonic, operand, carry_in) ==
  CASE mnemonic = "ASL" ->
         [result |-> operand * 2, carry |-> operand >= 128]
    [] mnemonic = "LSR" ->
         [result |-> operand \div 2, carry |-> operand % 2 = 1]
    [] mnemonic = "ROL" ->
         [result |-> operand * 2 + carry_in, carry |-> operand >= 128]
    [] mnemonic = "ROR" ->
         [result |-> 128 * carry_in + operand \div 2,
          carry |-> operand % 2 = 1]

\* The shift took d to c with the given result and carry: the flags follow
\* them, and the low eight bits of the result went to A in implied mode and
\* to the byte at addr_abs otherwise.
ShiftedTo(d, c, shift) ==
  /\ contains(c.status, C) <=> shift.carry
  /\ ZNFrom(c, shift.result % 256)
  /\ IF Mode(c) = "IMP"
       THEN c.a = shift.result % 256 /\ c.ram = d.ram
       ELSE /\ read(c, c.addr_abs) = shift.result % 256
            /\ c.ram = WriteRam(d.ram, c.addr_abs, shift.result % 256)
            /\ c.a = d.a

\* C35: for every operand and carry in, ASL gives operand * 2 with C = old
\* bit 7, LSR operand div 2 with C = old bit 0, ROL operand * 2 + carry in
\* with C = old bit 7, ROR 128 * carry in + operand div 2 with C = old bit
\* 0; Z and N come from the low eight bits of the result, which is written
\* to A, the memory untouched, exactly when the mode is IMP, and otherwise to
\* the byte at addr_abs with A unchanged.
C35_Shifts ==
  (/\ op = "dispatch"
   /\ Mnemonic(cpu) \in {"ASL", "LSR", "ROL", "ROR"}
   /\ ~cpu.panicked) =>
    ShiftedTo(pre, cpu,
              ShiftOf(Mnemonic(cpu),
                      IF Mode(cpu) = "IMP" THEN pre.a ELSE Operand,
                      BoolToInt(contains(pre.status, C))))

\* ROR of the byte 0x01 at 0x0010 with the carry set left 0x80 there, with C
\* and N set, Z clear and A as it was.
C35_Witness ==
  /\ op = "dispatch"
  /\ cpu.opcode = 102
  /\ read(pre, 16) = 1
  /\ contains(pre.status, C)
  /\ read(cpu, 16) = 128
  /\ cpu.a = pre.a /\ cpu.a # 128
  /\ contains(cpu.status, C) /\ contains(cpu.status, N)
  /\ ~contains(cpu.status, Z)

\* The opcode bytes no documented instruction is bound to: the slots the
\* table fills with XXX, the NOPs other than 0xEA, and 0xEB.
Undocumented ==
  { o \in 0..255 :
      \/ decode(o).mnemonic = "XXX"
      \/ decode(o).mnemonic = "NOP" /\ o # 234
      \/ o = 235 }

\* C36: every opcode that no documented instruction is bound to (the
\* illegal slots, the unofficial NOPs and 0xEB), like the NOP 0xEA, runs as
\* a no-op that is charged its cycles: A, X, Y, SP, every flag and every
\* memory byte are unchanged; only PC and cycles_remaining move.
C36_IllegalOpcodesAreNoOps ==
  (op = "dispatch" /\ cpu.opcode \in Undocumented \cup {234}) =>
    /\ ~cpu.panicked
    /\ cpu.a = pre.a /\ cpu.x = pre.x /\ cpu.y = pre.y /\ cpu.sp = pre.sp
    /\ cpu.status = pre.status
    /\ cpu.ram = pre.ram
    /\ cpu.cycles_remaining = decode(cpu.opcode).cycles - 1

ReadNopOpcodes == {28, 60, 92, 124, 220, 252}

\* C37: the unofficial read-NOPs 0x1C, 0x3C, 0x5C, 0x7C, 0xDC and 0xFC
\* return the hint 1, every other NOP opcode 0, and take the page-cross
\* penalty: such a NOP occupies its base ticks + 1 when its operand word
\* indexed by X crosses a page, and its base ticks otherwise.
C37_ReadNops ==
  /\ (op = "dispatch" /\ Mnemonic(cpu) = "NOP") =>
       nop(cpu).ret = IF cpu.opcode \in ReadNopOpcodes THEN 1 ELSE 0
  /\ (InstrDone /\ cpu.opcode \in ReadNopOpcodes) =>
       ticks = decode(cpu.opcode).cycles
                 + IF PageCrossed(Pointer(disp), disp.x) THEN 1 ELSE 0
\* The execute procedure of cpu_instr that carries out each mnemonic, and
\* the addressing procedure of cpu_addr that carries out each mode.
ProcedureOf ==
  [LDA |-> "lda", LDX |-> "ldx", LDY |-> "ldy", STA |-> "sta",
   STX |-> "stx", STY |-> "sty", TAX |-> "tax", TAY |-> "tay",
   TSX |-> "tsx", TXA |-> "txa", TXS |-> "txs", TYA |-> "tya",
   ADC |-> "adc", DEC |-> "dec", DEX |-> "dex", DEY |-> "dey",
   INC |-> "inc", INX |-> "inx", INY |-> "iny", SBC |-> "sbc",
   AND |-> "and", ASL |-> "asl", BIT |-> "bit", EOR |-> "eor",
   LSR |-> "lsr", ORA |-> "ora", ROL |-> "rol", ROR |-> "ror",
   BCC |-> "bcc", BCS |-> "bcs", BEQ |-> "beq", BMI |-> "bmi",
   BNE |-> "bne", BPL |-> "bpl", BVC |-> "bvc", BVS |-> "bvs",
   JMP |-> "jmp", JSR |-> "jsr", RTI |-> "rti", RTS |-> "rts",
   CLC |-> "clc", CLD |-> "cld", CLI |-> "cli", CLV |-> "clv",
   CMP |-> "cmp", CPX |-> "cpx", CPY |-> "cpy", SEC |-> "sec",
   SED |-> "sed", SEI |-> "sei", PHA |-> "pha", PHP |-> "php",
   PLA |-> "pla", PLP |-> "plp", BRK |-> "brk", NOP |-> "nop",
   XXX |-> "xxx"]

ModeProcedureOf ==
  [IMP |-> "imp", IMM |-> "imm", ZP0 |-> "zp0", ZPX |-> "zpx",
   ZPY |-> "zpy", REL |-> "rel", ABS |-> "abs", ABX |-> "abx",
   ABY |-> "aby", IND |-> "ind", IZX |-> "izx", IZY |-> "izy"]

\* The entry tags the procedures it binds, and an XXX entry is implied.
Consistent(entry) ==
  /\ entry.mnemonic \in DOMAIN ProcedureOf
  /\ entry.mode \in DOMAIN ModeProcedureOf
  /\ entry.op_exec = ProcedureOf[entry.mnemonic]
  /\ entry.mode_exec = ModeProcedureOf[entry.mode]
  /\ entry.mnemonic = "XXX" => entry.mode = "IMP"

\* C38: the opcode table has exactly 256 entries, and for every opcode byte
\* the mode tag names the mode of the bound addressing procedure and the
\* mnemonic tag the instruction of the bound execute procedure, so that
\* fetch() and the shift and rotate handlers, which branch on the tag, agree
\* with what was dispatched; every XXX entry is bound to IMP.  The table is
\* built once: it is gone through when the CPU is set up, and the entry of
\* the opcode in flight is looked at in every state.
C38_TableConsistent ==
  /\ op \in {"new", "setup"} =>
       /\ Len(INSTRUCTION_MAP) = 256
       /\ \A o \in 0..255 : Consistent(decode(o))
  /\ Consistent(decode(cpu.opcode))

\* ASL on the accumulator (0x0A, tagged IMP and bound to imp) was
\* dispatched: it shifted A, which imp had fetched, and wrote no memory.
C38_Witness ==
  /\ op = "dispatch"
  /\ cpu.opcode = 10
  /\ Consistent(decode(10))
  /\ pre.a = 80 /\ cpu.a = 160
  /\ cpu.fetched = pre.a
  /\ cpu.ram = pre.ram

\* What the line of the instruction at address a prints for its operand,
\* by the claim: the word after the opcode, low byte first, for the modes
\* with two operand bytes; the byte after the opcode for those with one; for
\* REL that byte and the target a + 2 + the byte as a signed offset.
Printed(c, mode, a) ==
  CASE mode \in {"ABS", "ABX", "ABY", "IND"} ->
         <<read(c, (a + 1) % 65536) + 256 * read(c, (a + 2) % 65536)>>
    [] mode \in {"IMM", "ZP0", "ZPX", "ZPY", "IZX", "IZY"} ->
         <<read(c, (a + 1) % 65536)>>
    [] mode = "REL" ->
         <<read(c, (a + 1) % 65536),
           AsU32(a + 2 + AsI8(read(c, (a + 1) % 65536)))>>
    [] OTHER -> <<>>

\* C39: for every instruction at an address a, the operand the disassembler
\* prints is the word mem[a+1] + 256 * mem[a+2] for the modes ABS, ABX, ABY
\* and IND, the byte mem[a+1] for the modes with one operand byte, and for
\* REL the target printed is a + 2 + the operand as a signed 8-bit offset.
C39_PrintedOperands ==
  /\ dis.at # "panicked"
  /\ \A i \in 1..Len(dis.instr_lines) :
       dis.instr_lines[i].text.val
         = Printed(cpu, dis.instr_lines[i].mode, dis.instr_lines[i].op_addr)

\* C40: in every state reached from construction or reset() by clock(),
\* irq(), nmi() and reset() over any memory, cycles_remaining is between 0
\* and 8 between calls and every instruction occupies at least 2 and at
\* most 8 ticks, so that under repeated clock() calls a new opcode is
\* dispatched within 8 ticks: no more than 8 calls are ever made for one
\* instruction, and a dispatching call leaves at most 7 to wait.
C40_CyclesBounded ==
  /\ cpu.cycles_remaining \in 0..8
  /\ ticks <= 8
  /\ InstrDone => ticks \in 2..8
  /\ (op = "dispatch" /\ ~cpu.panicked) =>
       /\ cpu.cycles_remaining \in 1..7
       /\ cpu.cycles_remaining <= decode(cpu.opcode).cycles + 1

\* An instruction of 8 base cycles has taken its 8 ticks, the last of them
\* just now, and the next clock() will dispatch.
C40_Witness ==
  /\ InstrDone
  /\ op = "wait"
  /\ ticks = 8
  /\ decode(cpu.opcode).cycles = 8
  /\ pre.cycles_remaining = 1
====
